---- MODULE Spec2Model ----
(***************************************************************************)
(* A model of the rfc2603 crate (Rust symbol name mangling v0): the        *)
(* base-62 codec, the identifier codec, the path encoder, V0Mangler and    *)
(* SymbolBuilder.                                                          *)
(*                                                                         *)
(* A Rust String is a sequence of characters.  An ASCII character is a     *)
(* one-character string ("a"); a non-ASCII character is a token naming its *)
(* Unicode scalar value ("U+F6"), which CodePointOf gives.  A byte is an   *)
(* integer in 0..255.                                                      *)
(*                                                                         *)
(* u64 values are modelled as naturals: the code subtracts with            *)
(* checked_sub and adds one only after widening u32 to u64, so no          *)
(* operation of the encoder can wrap.                                      *)
(***************************************************************************)
EXTENDS Integers, Sequences, FiniteSets, TLC

VARIABLES
    first,      \* the first call made on the library: a call record
    second,     \* a second call, made after the first: a call record
    builder,    \* the SymbolBuilder being configured (its fields)
    result,     \* what build() / build_path() returned
    mangler,        \* the V0Mangler being driven (its fields)
    symbol_mangler, \* the V0SymbolMangler being driven (its fields)
    called      \* the last operation called on a mangler: a call record

vars == <<first, second, builder, result, mangler, symbol_mangler, called>>

\* ------------------------------------------------------------------ bounds

\* Integer arguments range over 0..MaxX and the BoundaryInputs.
MaxX == 64
\* Identifiers: every sequence over IdentAlphabet of at most this length.
MaxIdentLen == 2
\* Disambiguators of path segments range over 0..MaxDis.
MaxDis == 1
\* encode_simple_path: segment lists of at most this length.
MaxPathLen == 2
\* SymbolBuilder: at most this many segments / generic arguments are added.
MaxSegments == 2
MaxGenerics == 2
\* A V0Mangler session makes at most this many calls.
MaxManglerOps == 3
\* A V0SymbolMangler session makes at most this many calls.
MaxPrintOps == 2

\* ----------------------------------------------------------------- strings

Digits == <<"0","1","2","3","4","5","6","7","8","9">>
Lower == <<"a","b","c","d","e","f","g","h","i","j","k","l","m",
           "n","o","p","q","r","s","t","u","v","w","x","y","z">>
Upper == <<"A","B","C","D","E","F","G","H","I","J","K","L","M",
           "N","O","P","Q","R","S","T","U","V","W","X","Y","Z">>

Range(s) == {s[i] : i \in DOMAIN s}

Reverse(s) == [i \in 1..Len(s) |-> s[Len(s) + 1 - i]]

\* All sequences over S of length at most n.
SeqsUpTo(S, n) == UNION {[1..k -> S] : k \in 0..n}

\* Option<T>
None == [some |-> FALSE]
Some(v) == [some |-> TRUE, val |-> v]

\* format!("{}", n) for an unsigned integer: its decimal digits.
RECURSIVE ToDecimal(_)
ToDecimal(n) ==
    IF n < 10 THEN <<Digits[n + 1]>>
    ELSE ToDecimal(n \div 10) \o <<Digits[(n % 10) + 1]>>

\* ------------------------------------------------------------ base-62 codec

BASE_62 == Digits \o Lower \o Upper

RECURSIVE to_base_62_loop(_, _)
to_base_62_loop(x, res) ==
    IF x > 0
    THEN to_base_62_loop(x \div 62, Append(res, BASE_62[(x % 62) + 1]))
    ELSE res

\* A to_base_62 that forgets result.reverse().
to_base_62_unreversed(x) ==
    IF x = 0 THEN <<"0">> ELSE to_base_62_loop(x, <<>>)

to_base_62(x) ==
    IF x = 0 THEN <<"0">> ELSE Reverse(to_base_62_loop(x, <<>>))

push_integer_62(x, output) ==
    IF x >= 1
    THEN (output \o to_base_62(x - 1)) \o <<"_">>
    ELSE output \o <<"_">>

encode_integer_62(x) == push_integer_62(x, <<>>)

\* A push_opt_integer_62 that passes x on without the second subtraction.
push_opt_integer_62_no_sub(tag, x, output) ==
    IF x >= 1 THEN push_integer_62(x, output \o tag) ELSE output

push_opt_integer_62(tag, x, output) ==
    IF x >= 1 THEN push_integer_62(x - 1, output \o tag) ELSE output

push_disambiguator(dis, output) == push_opt_integer_62(<<"s">>, dis, output)

\* BASE62.find(c): the index of c in the alphabet, None when c is no digit.
Base62Find(c) ==
    IF \E i \in 1..Len(BASE_62) : BASE_62[i] = c
    THEN Some((CHOOSE i \in 1..Len(BASE_62) : BASE_62[i] = c) - 1)
    ELSE None

\* The loop of decode_base62: None as soon as a character is no digit.
RECURSIVE decode_base62_loop(_, _, _)
decode_base62_loop(s, i, res) ==
    IF i > Len(s) THEN Some(res)
    ELSE IF ~Base62Find(s[i]).some THEN None
    ELSE decode_base62_loop(s, i + 1, res * 62 + Base62Find(s[i]).val)

decode_base62(s) ==
    LET r == decode_base62_loop(s, 1, 0)
    IN  IF r.some THEN Some(r.val + 1) ELSE None

\* ---------------------------------------------------------- identifier codec

\* The non-ASCII characters of the model and their Unicode scalar values.
CodePointOf == ("U+F6" :> 246) @@ ("U+4E2D" :> 20013)

IsAscii(c) == c \notin DOMAIN CodePointOf

IndexOf(s, c) == CHOOSE i \in DOMAIN s : s[i] = c

\* ASCII characters that are neither letters nor digits.
OtherAscii == ("_" :> 95) @@ ("-" :> 45) @@ (" " :> 32) @@ ("$" :> 36)

AsciiCode(c) ==
    IF c \in Range(Digits) THEN 47 + IndexOf(Digits, c)
    ELSE IF c \in Range(Upper) THEN 64 + IndexOf(Upper, c)
    ELSE IF c \in Range(Lower) THEN 96 + IndexOf(Lower, c)
    ELSE OtherAscii[c]

CodePoint(c) == IF IsAscii(c) THEN AsciiCode(c) ELSE CodePointOf[c]

\* The UTF-8 bytes of one character, as str stores it.
Utf8(c) ==
    LET cp == CodePoint(c)
    IN  IF cp < 128 THEN <<cp>>
        ELSE IF cp < 2048 THEN <<192 + (cp \div 64), 128 + (cp % 64)>>
        ELSE IF cp < 65536
        THEN <<224 + (cp \div 4096), 128 + ((cp \div 64) % 64), 128 + (cp % 64)>>
        ELSE <<240 + (cp \div 262144), 128 + ((cp \div 4096) % 64),
               128 + ((cp \div 64) % 64), 128 + (cp % 64)>>

\* ident.bytes()
RECURSIVE Bytes(_)
Bytes(ident) ==
    IF ident = <<>> THEN <<>> ELSE Utf8(Head(ident)) \o Bytes(Tail(ident))

\* The arms of the match in push_ident's byte loop.
ByteIsIdentChar(b) ==
    \/ b = 95
    \/ b \in 97..122
    \/ b \in 65..90
    \/ b \in 48..57

ByteIsNonAscii(b) == b \in 128..255

\* A byte loop that stops checking once it has seen a non-ASCII byte.
ident_byte_loop_stops_at_non_ascii(bytes, i, use_punycode) ==
    IF \E j \in DOMAIN bytes : ByteIsNonAscii(bytes[j])
    THEN LET k == CHOOSE j \in DOMAIN bytes :
                      /\ ByteIsNonAscii(bytes[j])
                      /\ \A l \in 1..(j - 1) : ~ByteIsNonAscii(bytes[l])
         IN  [panicked |-> \E l \in 1..(k - 1) : ~ByteIsIdentChar(bytes[l]),
              use_punycode |-> TRUE]
    ELSE [panicked |-> \E l \in DOMAIN bytes : ~ByteIsIdentChar(bytes[l]),
          use_punycode |-> FALSE]

\* The byte loop of push_ident: it panics on the first byte that matches
\* neither arm, and otherwise tells whether Punycode is needed.
RECURSIVE ident_byte_loop(_, _, _)
ident_byte_loop(bytes, i, use_punycode) ==
    IF i > Len(bytes) THEN [panicked |-> FALSE, use_punycode |-> use_punycode]
    ELSE IF ByteIsIdentChar(bytes[i])
    THEN ident_byte_loop(bytes, i + 1, use_punycode)
    ELSE IF ByteIsNonAscii(bytes[i]) THEN ident_byte_loop(bytes, i + 1, TRUE)
    ELSE [panicked |-> TRUE, use_punycode |-> use_punycode]

\* punycode::encode (RFC 3492 Bootstring with the Punycode parameters:
\* base 36, tmin 1, tmax 26, skew 38, damp 700, initial bias 72, initial n 128).
puny_digit(d) == IF d < 26 THEN Lower[d + 1] ELSE Digits[d - 25]

RECURSIVE puny_adapt_loop(_, _)
puny_adapt_loop(delta, k) ==
    IF delta > 455 THEN puny_adapt_loop(delta \div 35, k + 36)
    ELSE k + ((36 * delta) \div (delta + 38))

puny_adapt(delta, numpoints, firsttime) ==
    LET d1 == IF firsttime THEN delta \div 700 ELSE delta \div 2
    IN  puny_adapt_loop(d1 + (d1 \div numpoints), 0)

RECURSIVE puny_varint(_, _, _, _)
puny_varint(q, k, bias, out) ==
    LET t == IF k <= bias THEN 1 ELSE IF k >= bias + 26 THEN 26 ELSE k - bias
    IN  IF q < t THEN Append(out, puny_digit(q))
        ELSE puny_varint((q - t) \div (36 - t), k + 36, bias,
                         Append(out, puny_digit(t + ((q - t) % (36 - t)))))

\* One pass over the input for the current code point n.
RECURSIVE puny_pass(_, _, _, _, _)
puny_pass(input, i, n, b, st) ==
    IF i > Len(input) THEN st
    ELSE LET c == CodePoint(input[i])
             d == IF c < n THEN st.delta + 1 ELSE st.delta
         IN  IF c = n
             THEN puny_pass(input, i + 1, n, b,
                            [delta |-> 0,
                             bias |-> puny_adapt(d, st.h + 1, st.h = b),
                             h |-> st.h + 1,
                             out |-> puny_varint(d, 36, st.bias, st.out)])
             ELSE puny_pass(input, i + 1, n, b, [st EXCEPT !.delta = d])

\* The main loop; Err(()) when delta would overflow u32, which is
\* (m - n) > (u32::MAX - delta) / (h + 1), that is
\* (m - n) * (h + 1) + delta >= 2^32.
RECURSIVE puny_main(_, _, _, _)
puny_main(input, n, b, st) ==
    IF st.h >= Len(input) THEN Some(st.out)
    ELSE LET rest == {CodePoint(input[i]) : i \in DOMAIN input} \ 0..(n - 1)
             m == CHOOSE x \in rest : \A y \in rest : x <= y
             grown == (m - n) * (st.h + 1) + st.delta
         IN  IF grown \div 65536 >= 65536 THEN None
             ELSE LET st2 == puny_pass(input, 1, m, b, [st EXCEPT !.delta = grown])
                  IN  puny_main(input, m + 1, b,
                                [st2 EXCEPT !.delta = st2.delta + 1])

punycode_encode(input) ==
    LET basic == SelectSeq(input, IsAscii)
        b == Len(basic)
    IN  puny_main(input, 128, b,
                  [delta |-> 0, bias |-> 72, h |-> b,
                   out |-> IF b > 0 THEN basic \o <<"-">> ELSE basic])

\* punycode_bytes.iter_mut().rfind(|c| c == '-') then *c = '_': the last
\* hyphen only.
ReplaceLastHyphen(s) ==
    IF \E i \in DOMAIN s : s[i] = "-"
    THEN LET k == CHOOSE i \in DOMAIN s :
                      /\ s[i] = "-"
                      /\ \A j \in (i + 1)..Len(s) : s[j] # "-"
         IN  [s EXCEPT ![k] = "_"]
    ELSE s

\* A tail that writes the separator before a leading "_" only.
push_len_and_bytes_sep_underscore_only(ident, output) ==
    LET sep == IF ident # <<>> /\ Head(ident) = "_" THEN <<"_">> ELSE <<>>
    IN  ((output \o ToDecimal(Len(ident))) \o sep) \o ident

\* The tail of push_ident: the decimal length, a separating "_" before a
\* leading digit or "_", then the bytes.
push_len_and_bytes(ident, output) ==
    LET sep == IF ident # <<>> /\ (Head(ident) = "_" \/ Head(ident) \in Range(Digits))
               THEN <<"_">> ELSE <<>>
    IN  ((output \o ToDecimal(Len(ident))) \o sep) \o ident

\* A Punycode arm that forgets the "u" prefix.
push_punycode_no_u(ident, output) ==
    LET p == punycode_encode(ident)
    IN  IF p.some
        THEN [out |-> push_len_and_bytes(ReplaceLastHyphen(p.val), output),
              panicked |-> FALSE]
        ELSE [out |-> output, panicked |-> TRUE]

\* The Punycode arm of push_ident: "u", the transliteration, then the tail.
push_punycode(ident, output) ==
    LET p == punycode_encode(ident)
    IN  IF p.some
        THEN [out |-> push_len_and_bytes(ReplaceLastHyphen(p.val), output \o <<"u">>),
              panicked |-> FALSE]
        ELSE [out |-> output \o <<"u">>, panicked |-> TRUE]

\* push_ident: the buffer afterwards, and whether the call panicked.
push_ident(ident, output) ==
    LET scan == ident_byte_loop(Bytes(ident), 1, FALSE)
    IN  IF scan.panicked THEN [out |-> output, panicked |-> TRUE]
        ELSE IF scan.use_punycode THEN push_punycode(ident, output)
        ELSE [out |-> push_len_and_bytes(ident, output), panicked |-> FALSE]

\* Whether push_ident panics on this identifier.
IdentPanics(ident) == push_ident(ident, <<>>).panicked

\* --------------------------------------------------------------- namespaces

Namespaces == {"Crate", "Type", "Value", "Closure", "Shim"}

\* Namespace::tag
NamespaceTag(ns) ==
    CASE ns = "Crate" -> "C"
      [] ns = "Type" -> "t"
      [] ns = "Value" -> "v"
      [] ns = "Closure" -> "C"
      [] ns = "Shim" -> "S"

\* ------------------------------------------------------------- path encoder
\* A segment is [name, ns, dis].  The functions below give the String that
\* is returned when no identifier panics; encode_simple_path_panics tells
\* when one does.

encode_crate_root(name, disambiguator) ==
    push_ident(name, push_disambiguator(disambiguator, <<"C">>)).out

\* An encode_crate_root_with_hash that forgets the "_" closing the hash.
encode_crate_root_with_hash_unterminated(name, hash_b62) ==
    push_ident(name, IF hash_b62 # <<>>
                     THEN (<<"C">> \o <<"s">>) \o hash_b62
                     ELSE <<"C">>).out

encode_crate_root_with_hash(name, hash_b62) ==
    push_ident(name, IF hash_b62 # <<>>
                     THEN ((<<"C">> \o <<"s">>) \o hash_b62) \o <<"_">>
                     ELSE <<"C">>).out

\* The first segment of encode_simple_path_with_crate_hash.
encode_first_segment(seg, crate_hash) ==
    IF seg.ns = "Crate"
    THEN IF crate_hash.some
         THEN encode_crate_root_with_hash(seg.name, crate_hash.val)
         ELSE push_ident(seg.name, push_disambiguator(seg.dis, <<"C">>)).out
    ELSE push_ident(seg.name,
                    push_disambiguator(seg.dis, <<NamespaceTag(seg.ns)>>)).out

\* A loop body that writes the earlier path after the new segment.
wrap_segment_prefix_last(seg, prev) ==
    push_ident(seg.name, push_disambiguator(seg.dis, <<"N", NamespaceTag(seg.ns)>>)).out
        \o prev

\* The body of the loop over segments[1..]: the new segment wraps prev.
wrap_segment(seg, prev) ==
    push_ident(seg.name,
               push_disambiguator(seg.dis, <<"N", NamespaceTag(seg.ns)>> \o prev)).out

RECURSIVE encode_simple_path_loop(_, _, _)
encode_simple_path_loop(segments, i, output) ==
    IF i > Len(segments) THEN output
    ELSE encode_simple_path_loop(segments, i + 1, wrap_segment(segments[i], output))

encode_simple_path_with_crate_hash(segments, crate_hash) ==
    IF segments = <<>> THEN <<>>
    ELSE encode_simple_path_loop(segments, 2,
                                 encode_first_segment(segments[1], crate_hash))

encode_simple_path(segments) == encode_simple_path_with_crate_hash(segments, None)

encode_simple_path_panics(segments) ==
    \E i \in DOMAIN segments : IdentPanics(segments[i].name)

\* An encode_symbol that writes the prefix after the path.
encode_symbol_prefix_last(path) == path \o <<"_", "R">>

encode_symbol(path) == <<"_", "R">> \o path

\* ---------------------------------------------------------------- V0Mangler
\* [out, start_offset, paths, underflow]; paths is the HashMap from a key to
\* a position in out.  underflow records that print_backref was asked for a
\* position below start_offset (i - start_offset underflows usize).

START_OFFSET == 2

\* A V0Mangler::new that starts from an empty buffer.
V0Mangler_new_no_prefix ==
    [out |-> <<>>, start_offset |-> START_OFFSET, paths |-> <<>>,
     underflow |-> FALSE]

V0Mangler_new ==
    [out |-> <<"_", "R">>, start_offset |-> START_OFFSET, paths |-> <<>>,
     underflow |-> FALSE]

m_push(m, s) == [m EXCEPT !.out = m.out \o s]

m_push_integer_62(m, x) == [m EXCEPT !.out = push_integer_62(x, m.out)]

m_push_disambiguator(m, dis) == [m EXCEPT !.out = push_disambiguator(dis, m.out)]

m_push_ident(m, ident) == [m EXCEPT !.out = push_ident(ident, m.out).out]

\* print_prefix is the text the closure pushes (<<>> for |_m| {}).
path_append_ns(m, print_prefix, ns, disambiguator, name) ==
    m_push_ident(
        m_push_disambiguator(
            m_push(m_push(m_push(m, <<"N">>), <<ns>>), print_prefix),
            disambiguator),
        name)

\* A print_backref that writes the position without taking start_offset off.
print_backref_absolute(m, i) ==
    IF i >= m.start_offset
    THEN m_push_integer_62(m_push(m, <<"B">>), i)
    ELSE [m_push(m, <<"B">>) EXCEPT !.underflow = TRUE]

print_backref(m, i) ==
    IF i >= m.start_offset
    THEN m_push_integer_62(m_push(m, <<"B">>), i - m.start_offset)
    ELSE [m_push(m, <<"B">>) EXCEPT !.underflow = TRUE]

paths_insert(m, key, pos) == [m EXCEPT !.paths = (key :> pos) @@ m.paths]

\* A try_cache_path that records the current length on a hit as well.
try_cache_path_rerecords(m, key) ==
    IF key \in DOMAIN m.paths
    THEN LET printed == print_backref(m, m.paths[key])
         IN  [m |-> paths_insert(printed, key, Len(printed.out)), hit |-> TRUE]
    ELSE [m |-> paths_insert(m, key, Len(m.out)), hit |-> FALSE]

try_cache_path(m, key) ==
    IF key \in DOMAIN m.paths
    THEN [m |-> print_backref(m, m.paths[key]), hit |-> TRUE]
    ELSE [m |-> paths_insert(m, key, Len(m.out)), hit |-> FALSE]

\* ---------------------------------------------------------- V0SymbolMangler
\* A facet Shape is a record: ty (the variant of shape.ty), size (the size of
\* its sized layout, None when unsized), id (its ConstTypeId: one per Rust
\* type, so the record itself serves as the ShapeKey), type_identifier, and
\* the fields of the variant.

ShPrimitive(ty, id, size) ==
    [ty |-> ty, id |-> id, size |-> size, type_identifier |-> id]
ShInteger(id, signed, size) ==
    [ty |-> "Integer", id |-> id, signed |-> signed, size |-> Some(size),
     type_identifier |-> id]
ShFloat(id, size) ==
    [ty |-> "Float", id |-> id, size |-> Some(size), type_identifier |-> id]
\* kind is the StructKind: "Unit", "TupleStruct", "Struct" or "Tuple".
ShStruct(type_identifier, kind, fields) ==
    [ty |-> "Struct", id |-> type_identifier, kind |-> kind, fields |-> fields,
     type_identifier |-> type_identifier]
ShTuple(fields) == ShStruct(<<"(", ")">>, "Tuple", fields)
ShReference(mutable, target) ==
    [ty |-> "Reference", mutable |-> mutable, target |-> target,
     type_identifier |-> <<"&">>]
ShRaw(mutable, target) ==
    [ty |-> "Raw", mutable |-> mutable, target |-> target, type_identifier |-> <<"*">>]
ShArray(t, n) == [ty |-> "Array", t |-> t, n |-> n, type_identifier |-> <<"[", ";", "]">>]
ShSlice(t) == [ty |-> "Slice", t |-> t, type_identifier |-> <<"[", "]">>]
\* UserType::Enum, UserType::Union, UserType::Opaque
ShUser(ty, type_identifier) ==
    [ty |-> ty, id |-> type_identifier, type_identifier |-> type_identifier]
\* PointerType::Function and whatever else the match does not name.
ShOther(ty, type_identifier) ==
    [ty |-> ty, id |-> type_identifier, type_identifier |-> type_identifier]

IsUserType(shape) == shape.ty \in {"Struct", "Enum", "Union", "Opaque"}

ShapeKey(shape) == shape

\* [binders, out, is_exportable, start_offset, paths, types, consts], and
\* two records of what happened: backrefs lists, for every backreference
\* printed, the position it names and the length of out just before it was
\* printed; underflow as for V0Mangler.
\* A V0SymbolMangler::new that starts from an empty buffer.
V0SymbolMangler_new_no_prefix ==
    [binders |-> <<>>, out |-> <<>>, is_exportable |-> FALSE,
     start_offset |-> START_OFFSET, paths |-> <<>>, types |-> <<>>, consts |-> <<>>,
     backrefs |-> <<>>, underflow |-> FALSE]

V0SymbolMangler_new ==
    [binders |-> <<>>, out |-> <<"_", "R">>, is_exportable |-> FALSE,
     start_offset |-> START_OFFSET, paths |-> <<>>, types |-> <<>>, consts |-> <<>>,
     backrefs |-> <<>>, underflow |-> FALSE]

sm_push(sm, s) == [sm EXCEPT !.out = sm.out \o s]

sm_push_integer_62(sm, x) == [sm EXCEPT !.out = push_integer_62(x, sm.out)]

sm_print_backref(sm, i) ==
    LET noted == [sm EXCEPT !.backrefs = Append(sm.backrefs,
                                                [pos |-> i, at |-> Len(sm.out)])]
    IN  IF i >= sm.start_offset
        THEN sm_push_integer_62(sm_push(noted, <<"B">>), i - sm.start_offset)
        ELSE [sm_push(noted, <<"B">>) EXCEPT !.underflow = TRUE]

\* It prints nothing (the body is a TODO that returns Ok).
default_print_def_path(sm, def_id, args) == sm

print_def_path(sm, def_id, args) ==
    LET key == <<def_id, args>>
    IN  IF key \in DOMAIN sm.paths THEN sm_print_backref(sm, sm.paths[key])
        ELSE LET start == Len(sm.out)
                 printed == default_print_def_path(sm, def_id, args)
             IN  [printed EXCEPT !.paths = (key :> start) @@ printed.paths]

\* A print_const that records the constant again when it is already cached.
print_const_rerecords(sm, const_val) ==
    LET start == Len(sm.out)
        printed == IF const_val \in DOMAIN sm.consts
                   THEN sm_print_backref(sm, sm.consts[const_val])
                   ELSE sm_push_integer_62(sm_push(sm, <<"K">>), const_val.value)
    IN  [printed EXCEPT !.consts = (const_val :> start) @@ printed.consts]

print_const(sm, const_val) ==
    IF const_val \in DOMAIN sm.consts THEN sm_print_backref(sm, sm.consts[const_val])
    ELSE LET start == Len(sm.out)
             printed == sm_push_integer_62(sm_push(sm, <<"K">>), const_val.value)
         IN  [printed EXCEPT !.consts = (const_val :> start) @@ printed.consts]

\* The first match of print_type: the one-character tag, <<>> for "".
basic_type(shape) ==
    CASE shape.ty = "Boolean" -> <<"b">>
      [] shape.ty = "Char" -> <<"c">>
      [] shape.ty = "Str" -> <<"e">>
      [] shape.ty = "Integer" /\ shape.signed ->
            CASE shape.size = Some(1) -> <<"a">>
              [] shape.size = Some(2) -> <<"s">>
              [] shape.size = Some(4) -> <<"l">>
              [] shape.size = Some(8) -> <<"x">>
              [] shape.size = Some(16) -> <<"n">>
              [] OTHER -> <<"i">>
      [] shape.ty = "Integer" /\ ~shape.signed ->
            CASE shape.size = Some(1) -> <<"h">>
              [] shape.size = Some(2) -> <<"t">>
              [] shape.size = Some(4) -> <<"m">>
              [] shape.size = Some(8) -> <<"y">>
              [] shape.size = Some(16) -> <<"o">>
              [] OTHER -> <<"j">>
      [] shape.ty = "Float" ->
            CASE shape.size = Some(4) -> <<"f">>
              [] shape.size = Some(8) -> <<"d">>
              [] OTHER -> <<>>
      [] shape.ty = "Never" -> <<"z">>
      [] shape.ty = "Struct" /\ shape.fields = <<>> -> <<"u">>
      [] OTHER -> <<>>

RECURSIVE print_type(_, _)
RECURSIVE print_type_fields(_, _, _)

\* for field in struct_type.fields { self.print_type(field.shape())?; }
print_type_fields(sm, fields, i) ==
    IF i > Len(fields) THEN sm
    ELSE print_type_fields(print_type(sm, fields[i]), fields, i + 1)

\* The second match of print_type.
print_complex_type(sm, shape) ==
    CASE shape.ty = "Reference" ->
            print_type(sm_push(sm, IF shape.mutable THEN <<"Q">> ELSE <<"R">>),
                       shape.target)
      [] shape.ty = "Raw" ->
            print_type(sm_push(sm, IF shape.mutable THEN <<"O">> ELSE <<"P">>),
                       shape.target)
      [] shape.ty = "Array" ->
            print_const(print_type(sm_push(sm, <<"A">>), shape.t), [value |-> shape.n])
      [] shape.ty = "Slice" -> print_type(sm_push(sm, <<"S">>), shape.t)
      [] shape.ty = "Struct" /\ shape.kind = "Tuple" ->
            sm_push(print_type_fields(sm_push(sm, <<"T">>), shape.fields, 1), <<"E">>)
      [] IsUserType(shape) /\ ~(shape.ty = "Struct" /\ shape.kind = "Tuple") ->
            sm_push(sm, shape.type_identifier)
      [] OTHER -> sm

\* What print_type returns: PrintError is constructed nowhere, the early
\* returns give Ok(()) or what print_backref gives (Ok(())), and the body
\* ends in Ok(()).
print_type_ret(sm, shape) == "Ok"

\* The mangler after print_type.
print_type(sm, shape) ==
    IF basic_type(shape) # <<>> THEN sm_push(sm, basic_type(shape))
    ELSE LET key == ShapeKey(shape)
         IN  IF key \in DOMAIN sm.types THEN sm_print_backref(sm, sm.types[key])
             ELSE LET start == Len(sm.out)
                      printed == print_complex_type(sm, shape)
                  IN  [printed EXCEPT !.types = (key :> start) @@ printed.types]

\* ------------------------------------------------------------ SymbolBuilder
\* TypeArg, LifetimeArg and GenericArg are records tagged by kind.

\* A tag table that gives isize the tag of i64.
PrimitiveTag_isize_as_i64 ==
    [Bool |-> "b", Char |-> "c",
     I8 |-> "a", I16 |-> "s", I32 |-> "l", I64 |-> "x", I128 |-> "n", Isize |-> "x",
     U8 |-> "h", U16 |-> "t", U32 |-> "m", U64 |-> "y", U128 |-> "o", Usize |-> "j",
     F32 |-> "f", F64 |-> "d", Str |-> "e", Never |-> "z", Unit |-> "u"]

PrimitiveTag ==
    [Bool |-> "b", Char |-> "c",
     I8 |-> "a", I16 |-> "s", I32 |-> "l", I64 |-> "x", I128 |-> "n", Isize |-> "i",
     U8 |-> "h", U16 |-> "t", U32 |-> "m", U64 |-> "y", U128 |-> "o", Usize |-> "j",
     F32 |-> "f", F64 |-> "d", Str |-> "e", Never |-> "z", Unit |-> "u"]

Prim(k) == [kind |-> k]
Reference(lifetime, mutable, inner) ==
    [kind |-> "Reference", lifetime |-> lifetime, mutable |-> mutable, inner |-> inner]
RawPtr(mutable, inner) == [kind |-> "RawPtr", mutable |-> mutable, inner |-> inner]
Tuple(elements) == [kind |-> "Tuple", elements |-> elements]
Array(inner, len) == [kind |-> "Array", inner |-> inner, len |-> len]
Slice(inner) == [kind |-> "Slice", inner |-> inner]

Erased == [kind |-> "Erased"]
Bound(index) == [kind |-> "Bound", index |-> index]

GenericType(ty) == [kind |-> "Type", ty |-> ty]
GenericLifetime(lt) == [kind |-> "Lifetime", lt |-> lt]
GenericConst(val) == [kind |-> "Const", val |-> val]

Ok(v) == [kind |-> "Ok", val |-> v]
Err(msg) == [kind |-> "Err", msg |-> msg]
Panic == [kind |-> "Panic"]

\* An encode_lifetime_arg that pushes a bound lifetime's index as it is.
encode_lifetime_arg_no_increment(m, lt) ==
    IF lt.kind = "Erased"
    THEN m_push_integer_62(m_push(m, <<"L">>), 0)
    ELSE m_push_integer_62(m_push(m, <<"L">>), lt.index)

\* index is a u32 and is widened to u64 before the addition.
encode_lifetime_arg(m, lt) ==
    IF lt.kind = "Erased"
    THEN m_push_integer_62(m_push(m, <<"L">>), 0)
    ELSE m_push_integer_62(m_push(m, <<"L">>), lt.index + 1)

RECURSIVE encode_type_arg(_, _)
RECURSIVE encode_tuple_elements(_, _, _)

encode_tuple_elements(m, elements, i) ==
    IF i > Len(elements) THEN m
    ELSE encode_tuple_elements(encode_type_arg(m, elements[i]), elements, i + 1)

encode_type_arg(m, ty) ==
    CASE ty.kind \in DOMAIN PrimitiveTag -> m_push(m, <<PrimitiveTag[ty.kind]>>)
      [] ty.kind = "Reference" ->
            LET m1 == m_push(m, IF ty.mutable THEN <<"Q">> ELSE <<"R">>)
                m2 == IF ty.lifetime.some
                      THEN encode_lifetime_arg(m1, ty.lifetime.val)
                      ELSE m_push_integer_62(m_push(m1, <<"L">>), 0)
            IN  encode_type_arg(m2, ty.inner)
      [] ty.kind = "RawPtr" ->
            encode_type_arg(m_push(m, IF ty.mutable THEN <<"O">> ELSE <<"P">>), ty.inner)
      [] ty.kind = "Tuple" ->
            m_push(encode_tuple_elements(m_push(m, <<"T">>), ty.elements, 1), <<"E">>)
      [] ty.kind = "Array" ->
            m_push_integer_62(
                m_push(encode_type_arg(m_push(m, <<"A">>), ty.inner), <<"K", "j">>),
                ty.len)
      [] ty.kind = "Slice" -> encode_type_arg(m_push(m, <<"S">>), ty.inner)

encode_generic_arg(m, arg) ==
    CASE arg.kind = "Type" -> encode_type_arg(m, arg.ty)
      [] arg.kind = "Lifetime" -> encode_lifetime_arg(m, arg.lt)
      [] arg.kind = "Const" -> m_push_integer_62(m_push(m, <<"K", "j">>), arg.val)

\* A loop over the generic arguments that takes them last-added first.
RECURSIVE encode_generic_args_reversed(_, _, _)
encode_generic_args_reversed(m, args, i) ==
    IF i > Len(args) THEN m
    ELSE encode_generic_args_reversed(
             encode_generic_arg(m, args[Len(args) + 1 - i]), args, i + 1)

RECURSIVE encode_generic_args(_, _, _)
encode_generic_args(m, args, i) ==
    IF i > Len(args) THEN m
    ELSE encode_generic_args(encode_generic_arg(m, args[i]), args, i + 1)

\* SymbolBuilder::new
SymbolBuilder_new(crate_name) ==
    [kind |-> "SymbolBuilder", crate_name |-> crate_name, crate_hash |-> None, segments |-> <<>>,
     method_info |-> None, generic_args |-> <<>>,
     path_cache |-> <<>>, start_offset |-> START_OFFSET]

\* A segments_with_crate that takes the builder's segments last-added first.
segments_with_crate_reversed(b) ==
    <<[name |-> b.crate_name, ns |-> "Crate", dis |-> 0]>>
        \o [i \in 1..Len(b.segments) |->
                [name |-> b.segments[Len(b.segments) + 1 - i].name,
                 ns |-> b.segments[Len(b.segments) + 1 - i].ns, dis |-> 0]]

\* vec![(crate_name, Namespace::Crate, 0)] followed by the builder's segments
\* in the order they were added.
segments_with_crate(b) ==
    <<[name |-> b.crate_name, ns |-> "Crate", dis |-> 0]>>
        \o [i \in 1..Len(b.segments) |->
                [name |-> b.segments[i].name, ns |-> b.segments[i].ns, dis |-> 0]]

build_generic_instantiation(b) ==
    LET m0 == m_push(V0Mangler_new, <<"I">>)
        path == encode_simple_path_with_crate_hash(segments_with_crate(b), b.crate_hash)
        m1 == m_push(m0, path)
        m2 == encode_generic_args(m1, b.generic_args, 1)
    IN  IF encode_simple_path_panics(segments_with_crate(b)) THEN Panic
        ELSE Ok(m_push(m2, <<"E">>).out)

\* The loop over method_info.impl_path: path_append_ns with an empty prefix.
RECURSIVE append_impl_path(_, _, _)
append_impl_path(m, impl_path, i) ==
    IF i > Len(impl_path) THEN m
    ELSE append_impl_path(
             path_append_ns(m, <<>>, NamespaceTag(impl_path[i].ns), 0, impl_path[i].name),
             impl_path, i + 1)

build_method_symbol(b) ==
    IF ~b.method_info.some THEN Err("Method info not set")
    ELSE
    LET method_info == b.method_info.val
        m0 == m_push(m_push(V0Mangler_new, <<"N", "v">>), <<"M">>)
        impl_path_start == Len(m0.out)
        m1 == IF b.crate_hash.some
              THEN m_push(m0, encode_crate_root_with_hash(b.crate_name, b.crate_hash.val))
              ELSE m_push(m0, encode_crate_root(b.crate_name, 0))
        m2 == append_impl_path(m1, method_info.impl_path, 1)
        impl_path_key == <<"impl", b.crate_name, method_info.impl_path>>
        m3 == paths_insert(m2, impl_path_key, impl_path_start)
        m4 == m_push(m3, <<"N", "t">>)
        m5 == IF impl_path_key \in DOMAIN m4.paths
              THEN print_backref(m4, m4.paths[impl_path_key])
              ELSE m4
        m6 == m_push_ident(m5, method_info.type_name)
        m7 == m_push_ident(m6, method_info.method_name)
    IN  IF \/ IdentPanics(b.crate_name)
           \/ \E i \in DOMAIN method_info.impl_path :
                  IdentPanics(method_info.impl_path[i].name)
           \/ IdentPanics(method_info.type_name)
           \/ IdentPanics(method_info.method_name)
        THEN Panic
        ELSE Ok(m7.out)

NoSegmentsError ==
    "Symbol path must have at least one segment (function, module, etc.)"

\* A build that looks at the generic arguments before the segments.
build_generics_first(b) ==
    IF b.method_info.some THEN build_method_symbol(b)
    ELSE IF b.generic_args # <<>> THEN build_generic_instantiation(b)
    ELSE IF b.segments = <<>> THEN Err(NoSegmentsError)
    ELSE IF encode_simple_path_panics(segments_with_crate(b)) THEN Panic
    ELSE Ok(encode_symbol(
                encode_simple_path_with_crate_hash(segments_with_crate(b), b.crate_hash)))

build(b) ==
    IF b.method_info.some THEN build_method_symbol(b)
    ELSE IF b.segments = <<>> THEN Err(NoSegmentsError)
    ELSE IF b.generic_args # <<>> THEN build_generic_instantiation(b)
    ELSE IF encode_simple_path_panics(segments_with_crate(b)) THEN Panic
    ELSE Ok(encode_symbol(
                encode_simple_path_with_crate_hash(segments_with_crate(b), b.crate_hash)))

build_path(b) ==
    IF b.segments = <<>> THEN Err(NoSegmentsError)
    ELSE IF encode_simple_path_panics(segments_with_crate(b)) THEN Panic
    ELSE Ok(encode_simple_path_with_crate_hash(segments_with_crate(b), b.crate_hash))

\* ================================================================ the calls
\* A call record holds the function called, its arguments and what it gave.

NoCall == [fn |-> "none"]
NoBuilder == [kind |-> "none"]
NoResult == [fn |-> "none"]
NoMangler == [kind |-> "none"]

\* What a call appended to the buffer it was given.
Appended(call) == SubSeq(call.after, Len(call.before) + 1, Len(call.after))

\* The buffers a call may be given: a new String, or one that holds text.
InitialBuffers == {<<>>, <<"_", "R">>}

\* ------------------------------------------------- base-62 codec: the calls

BoundaryInputs == {100, 124, 125, 1000, 3844, 3845, 238328, 238329}
U64Inputs == 0..MaxX \cup BoundaryInputs

Tags == {<<"s">>, <<"d">>, <<"x", "y">>}

CallPushInteger62 ==
    /\ first.fn = "none"
    /\ \E x \in U64Inputs, output \in InitialBuffers :
           first' = [fn |-> "push_integer_62", x |-> x, before |-> output,
                     after |-> push_integer_62(x, output)]
    /\ UNCHANGED <<second, builder, result, mangler, symbol_mangler, called>>

CallEncodeInteger62 ==
    /\ first.fn = "none"
    /\ \E x \in U64Inputs :
           first' = [fn |-> "encode_integer_62", x |-> x, ret |-> encode_integer_62(x)]
    /\ UNCHANGED <<second, builder, result, mangler, symbol_mangler, called>>

\* The validator's use of decode_base62: on the characters that precede "_".
CallDecodeBase62 ==
    /\ first.fn = "encode_integer_62"
    /\ second.fn = "none"
    /\ LET val_str == SubSeq(first.ret, 1, Len(first.ret) - 1)
       IN  second' = [fn |-> "decode_base62", s |-> val_str, ret |-> decode_base62(val_str)]
    /\ UNCHANGED <<first, builder, result, mangler, symbol_mangler, called>>

CallPushOptInteger62 ==
    /\ first.fn = "none"
    /\ \E tag \in Tags, x \in U64Inputs, output \in InitialBuffers :
           first' = [fn |-> "push_opt_integer_62", tag |-> tag, x |-> x, before |-> output,
                     after |-> push_opt_integer_62(tag, x, output)]
    /\ UNCHANGED <<second, builder, result, mangler, symbol_mangler, called>>

CallPushDisambiguator ==
    /\ first.fn = "none"
    /\ \E dis \in U64Inputs, output \in InitialBuffers :
           first' = [fn |-> "push_disambiguator", x |-> dis, before |-> output,
                     after |-> push_disambiguator(dis, output)]
    /\ UNCHANGED <<second, builder, result, mangler, symbol_mangler, called>>

InitCalls ==
    /\ first = NoCall
    /\ second = NoCall
    /\ builder = NoBuilder
    /\ result = NoResult
    /\ mangler = NoMangler
    /\ symbol_mangler = NoMangler
    /\ called = NoCall

NextCodec ==
    \/ CallPushInteger62
    \/ CallEncodeInteger62
    \/ CallDecodeBase62
    \/ CallPushOptInteger62
    \/ CallPushDisambiguator

SpecCodec == InitCalls /\ [][NextCodec]_vars

\* ------------------------------------------------ identifier codec: the calls

IdentAlphabet == {"a", "_", "0", "-", "U+F6"}

SampleIdents ==
    { <<"e","x","a","m","p","l","e">>,
      <<"_","f","o","o">>,
      <<"0","a","b","c">>,
      <<"9","t","e","s","t">>,
      <<"Z","9">>,
      <<"n","d","a">>,
      <<"g","d","e","l","_","5","q","a">>,
      <<"g","U+F6","d","e","l">>,
      <<"U+4E2D","a","U+F6">>,
      <<"a","a","a","a","a","a","a","a","a","a">>,
      <<"0","a","a","a","a","a","a","a","a","a">>,
      <<"a","$","U+F6">>,
      <<"U+F6","a"," ">> }

Idents == SeqsUpTo(IdentAlphabet, MaxIdentLen) \cup SampleIdents

CallPushIdent ==
    /\ first.fn = "none"
    /\ \E ident \in Idents, output \in InitialBuffers :
           LET r == push_ident(ident, output)
           IN  first' = [fn |-> "push_ident", ident |-> ident, before |-> output,
                         after |-> r.out, panicked |-> r.panicked]
    /\ UNCHANGED <<second, builder, result, mangler, symbol_mangler, called>>

\* Another identifier, pushed to a buffer that starts like the first one did.
CallPushIdentAgain ==
    /\ first.fn = "push_ident"
    /\ second.fn = "none"
    /\ \E ident \in Idents :
           LET r == push_ident(ident, first.before)
           IN  second' = [fn |-> "push_ident", ident |-> ident, before |-> first.before,
                          after |-> r.out, panicked |-> r.panicked]
    /\ UNCHANGED <<first, builder, result, mangler, symbol_mangler, called>>

NextIdent ==
    \/ CallPushIdent
    \/ CallPushIdentAgain

SpecIdent == InitCalls /\ [][NextIdent]_vars

\* ---------------------------------------------------- path encoder: the calls

PathNames == {<<"m","y","c","r","a","t","e">>, <<"f","o","o">>}

\* Option<&str> crate hashes: absent, empty, and a base-62 text.
CrateHashes == {None, Some(<<>>), Some(<<"a","R","N","1">>)}

Segments == [name : PathNames, ns : Namespaces, dis : 0..MaxDis]

SegmentLists == SeqsUpTo(Segments, MaxPathLen)

CallEncodeSimplePath ==
    /\ first.fn = "none"
    /\ \E segments \in SegmentLists, crate_hash \in CrateHashes :
           first' = [fn |-> "encode_simple_path_with_crate_hash",
                     segments |-> segments, crate_hash |-> crate_hash,
                     ret |-> encode_simple_path_with_crate_hash(segments, crate_hash)]
    /\ UNCHANGED <<second, builder, result, mangler, symbol_mangler, called>>

\* The same call on the path without its last segment.
CallEncodeShorterPath ==
    /\ first.fn = "encode_simple_path_with_crate_hash"
    /\ second.fn = "none"
    /\ Len(first.segments) >= 2
    /\ LET shorter == SubSeq(first.segments, 1, Len(first.segments) - 1)
       IN  second' = [fn |-> "encode_simple_path_with_crate_hash",
                      segments |-> shorter, crate_hash |-> first.crate_hash,
                      ret |-> encode_simple_path_with_crate_hash(shorter, first.crate_hash)]
    /\ UNCHANGED <<first, builder, result, mangler, symbol_mangler, called>>

CallEncodeCrateRoot ==
    /\ first.fn = "none"
    /\ \E name \in PathNames, dis \in 0..MaxDis :
           first' = [fn |-> "encode_crate_root", name |-> name, dis |-> dis,
                     ret |-> encode_crate_root(name, dis)]
    /\ UNCHANGED <<second, builder, result, mangler, symbol_mangler, called>>

CallEncodeCrateRootWithHash ==
    /\ first.fn = "none"
    /\ \E name \in PathNames, crate_hash \in CrateHashes :
           /\ crate_hash.some
           /\ first' = [fn |-> "encode_crate_root_with_hash", name |-> name,
                        hash |-> crate_hash.val,
                        ret |-> encode_crate_root_with_hash(name, crate_hash.val)]
    /\ UNCHANGED <<second, builder, result, mangler, symbol_mangler, called>>

NextPath ==
    \/ CallEncodeSimplePath
    \/ CallEncodeShorterPath
    \/ CallEncodeCrateRoot
    \/ CallEncodeCrateRootWithHash

SpecPath == InitCalls /\ [][NextPath]_vars

\* ------------------------------------------------- SymbolBuilder: the calls
\* Init is SymbolBuilder::new; each action is one method of the fluent
\* interface; Build and BuildPath consume the builder (they take self).

CrateNames == {<<"m","y","c","r","a","t","e">>}
BuilderHashes == {<<"a","R","N","1","V","P","j","c","j","f","p">>}
TypeNames == {<<"i","n","n","e","r">>}
ValueNames == {<<"f","o","o">>}
MethodTypeNames == {<<"S","i","m","p","l","e","S","t","r","u","c","t">>}
MethodNames == {<<"n","e","w">>}

BuilderTypeArgs == {Prim("U32"), Prim("I64"), Reference(None, FALSE, Prim("U32"))}
BuilderLifetimeArgs == {Erased}
BuilderConsts == {10}
BuilderGenericArgs ==
    {GenericType(ty) : ty \in BuilderTypeArgs}
        \cup {GenericLifetime(lt) : lt \in BuilderLifetimeArgs}
        \cup {GenericConst(v) : v \in BuilderConsts}

Configuring == builder.kind = "SymbolBuilder" /\ result.fn = "none"

InitBuilder ==
    /\ first = NoCall
    /\ second = NoCall
    /\ \E crate_name \in CrateNames :
           builder = SymbolBuilder_new(crate_name)
    /\ result = NoResult
    /\ mangler = NoMangler
    /\ symbol_mangler = NoMangler
    /\ called = NoCall

push_segment(b, name, ns) ==
    [b EXCEPT !.segments = Append(b.segments, [name |-> name, ns |-> ns])]

with_hash ==
    /\ Configuring
    /\ \E hash \in BuilderHashes : builder' = [builder EXCEPT !.crate_hash = Some(hash)]
    /\ UNCHANGED <<first, second, result, mangler, symbol_mangler, called>>

module ==
    /\ Configuring
    /\ Len(builder.segments) < MaxSegments
    /\ \E name \in TypeNames : builder' = push_segment(builder, name, "Type")
    /\ UNCHANGED <<first, second, result, mangler, symbol_mangler, called>>

function ==
    /\ Configuring
    /\ Len(builder.segments) < MaxSegments
    /\ \E name \in ValueNames : builder' = push_segment(builder, name, "Value")
    /\ UNCHANGED <<first, second, result, mangler, symbol_mangler, called>>

value ==
    /\ Configuring
    /\ Len(builder.segments) < MaxSegments
    /\ \E name \in ValueNames : builder' = push_segment(builder, name, "Value")
    /\ UNCHANGED <<first, second, result, mangler, symbol_mangler, called>>

type_name ==
    /\ Configuring
    /\ Len(builder.segments) < MaxSegments
    /\ \E name \in TypeNames : builder' = push_segment(builder, name, "Type")
    /\ UNCHANGED <<first, second, result, mangler, symbol_mangler, called>>

method ==
    /\ Configuring
    /\ \E tn \in MethodTypeNames, mn \in MethodNames :
           builder' = [builder EXCEPT !.method_info =
                           Some([impl_path |-> builder.segments,
                                 type_name |-> tn, method_name |-> mn])]
    /\ UNCHANGED <<first, second, result, mangler, symbol_mangler, called>>

extend_generic_args(b, args) == [b EXCEPT !.generic_args = b.generic_args \o args]

with_generic ==
    /\ Configuring
    /\ Len(builder.generic_args) < MaxGenerics
    /\ \E arg \in BuilderGenericArgs : builder' = extend_generic_args(builder, <<arg>>)
    /\ UNCHANGED <<first, second, result, mangler, symbol_mangler, called>>

with_generics ==
    /\ Configuring
    /\ \E args \in SeqsUpTo(BuilderGenericArgs, MaxGenerics - Len(builder.generic_args)) :
           builder' = extend_generic_args(builder, args)
    /\ UNCHANGED <<first, second, result, mangler, symbol_mangler, called>>

with_type_param ==
    /\ Configuring
    /\ Len(builder.generic_args) < MaxGenerics
    /\ \E ty \in BuilderTypeArgs :
           builder' = extend_generic_args(builder, <<GenericType(ty)>>)
    /\ UNCHANGED <<first, second, result, mangler, symbol_mangler, called>>

with_lifetime ==
    /\ Configuring
    /\ Len(builder.generic_args) < MaxGenerics
    /\ \E lt \in BuilderLifetimeArgs :
           builder' = extend_generic_args(builder, <<GenericLifetime(lt)>>)
    /\ UNCHANGED <<first, second, result, mangler, symbol_mangler, called>>

with_const_param ==
    /\ Configuring
    /\ Len(builder.generic_args) < MaxGenerics
    /\ \E v \in BuilderConsts :
           builder' = extend_generic_args(builder, <<GenericConst(v)>>)
    /\ UNCHANGED <<first, second, result, mangler, symbol_mangler, called>>

Build ==
    /\ Configuring
    /\ result' = [fn |-> "build", value |-> build(builder)]
    /\ UNCHANGED <<first, second, builder, mangler, symbol_mangler, called>>

BuildPath ==
    /\ Configuring
    /\ result' = [fn |-> "build_path", value |-> build_path(builder)]
    /\ UNCHANGED <<first, second, builder, mangler, symbol_mangler, called>>

Init == InitBuilder

Next ==
    \/ with_hash
    \/ module
    \/ function
    \/ value
    \/ type_name
    \/ method
    \/ with_generic
    \/ with_generics
    \/ with_type_param
    \/ with_lifetime
    \/ with_const_param
    \/ Build
    \/ BuildPath

Spec == Init /\ [][Next]_vars

\* ---------------------------------------------------- type encoder: the calls
\* encode_type_arg, encode_lifetime_arg and encode_generic_arg are called as
\* build_generic_instantiation calls them: on a V0Mangler that holds "_R",
\* "I" and the path already.

MaxTupleLen == 2

TypePrims == {Prim(k) : k \in DOMAIN PrimitiveTag}
LeafTypes == {Prim("U32"), Prim("I64"), Prim("Unit")}
LifetimeIndexes == {0, 1, 61, 62, 2147483646}
LifetimeArgs == {Erased} \cup {Bound(i) : i \in LifetimeIndexes}
OptLifetimes == {None, Some(Erased), Some(Bound(0)), Some(Bound(1))}
ArrayLens == {0, 1, 10, 63}

\* The compound types whose children are drawn from S.
CompoundOver(S) ==
    {Reference(lt, mut, t) : lt \in OptLifetimes, mut \in BOOLEAN, t \in S}
        \cup {RawPtr(mut, t) : mut \in BOOLEAN, t \in S}
        \cup {Array(t, n) : t \in S, n \in ArrayLens}
        \cup {Slice(t) : t \in S}

NestedTypes ==
    {Reference(None, FALSE, Prim("U32")), Reference(Some(Bound(0)), TRUE, Prim("Str")),
     RawPtr(TRUE, Prim("Unit")), Array(Prim("U32"), 10), Slice(Prim("I64")),
     Tuple(<<>>), Tuple(<<Prim("U32"), Prim("I64")>>)}

TupleElements ==
    {Prim("U32"), Prim("I64"), Reference(None, FALSE, Prim("U32")), Tuple(<<>>)}

TypeArgs ==
    TypePrims \cup CompoundOver(LeafTypes) \cup CompoundOver(NestedTypes)
        \cup {Tuple(es) : es \in SeqsUpTo(TupleElements, MaxTupleLen)}

TypeManglers ==
    {V0Mangler_new,
     m_push(V0Mangler_new, <<"I","N","v","C","7","m","y","c","r","a","t","e","3","f","o","o">>)}

CallEncodeTypeArg ==
    /\ first.fn = "none"
    /\ \E m \in TypeManglers, ty \in TypeArgs :
           LET m2 == encode_type_arg(m, ty)
           IN  first' = [fn |-> "encode_type_arg", ty |-> ty, before |-> m.out,
                         after |-> m2.out, paths |-> m2.paths]
    /\ UNCHANGED <<second, builder, result, mangler, symbol_mangler, called>>

\* A primitive type, encoded on a mangler that starts like the first one did.
CallEncodePrimitiveAgain ==
    /\ first.fn = "encode_type_arg"
    /\ second.fn = "none"
    /\ \E ty \in TypePrims :
           LET m2 == encode_type_arg([V0Mangler_new EXCEPT !.out = first.before], ty)
           IN  second' = [fn |-> "encode_type_arg", ty |-> ty, before |-> first.before,
                          after |-> m2.out, paths |-> m2.paths]
    /\ UNCHANGED <<first, builder, result, mangler, symbol_mangler, called>>

CallEncodeLifetimeArg ==
    /\ first.fn = "none"
    /\ \E m \in TypeManglers, lt \in LifetimeArgs :
           first' = [fn |-> "encode_lifetime_arg", lt |-> lt, before |-> m.out,
                     after |-> encode_lifetime_arg(m, lt).out]
    /\ UNCHANGED <<second, builder, result, mangler, symbol_mangler, called>>

CallEncodeGenericArg ==
    /\ first.fn = "none"
    /\ \E m \in TypeManglers,
          arg \in {GenericConst(v) : v \in ArrayLens}
                  \cup {GenericLifetime(lt) : lt \in LifetimeArgs}
                  \cup {GenericType(ty) : ty \in NestedTypes} :
           first' = [fn |-> "encode_generic_arg", arg |-> arg, before |-> m.out,
                     after |-> encode_generic_arg(m, arg).out]
    /\ UNCHANGED <<second, builder, result, mangler, symbol_mangler, called>>

\* The name and the layout size in bytes of the integer and float kinds
\* (pointer-sized integers on a 64-bit target).
NumericShape ==
    [I8 |-> ShInteger(<<"i","8">>, TRUE, 1), I16 |-> ShInteger(<<"i","1","6">>, TRUE, 2),
     I32 |-> ShInteger(<<"i","3","2">>, TRUE, 4), I64 |-> ShInteger(<<"i","6","4">>, TRUE, 8),
     I128 |-> ShInteger(<<"i","1","2","8">>, TRUE, 16),
     Isize |-> ShInteger(<<"i","s","i","z","e">>, TRUE, 8),
     U8 |-> ShInteger(<<"u","8">>, FALSE, 1), U16 |-> ShInteger(<<"u","1","6">>, FALSE, 2),
     U32 |-> ShInteger(<<"u","3","2">>, FALSE, 4), U64 |-> ShInteger(<<"u","6","4">>, FALSE, 8),
     U128 |-> ShInteger(<<"u","1","2","8">>, FALSE, 16),
     Usize |-> ShInteger(<<"u","s","i","z","e">>, FALSE, 8),
     F32 |-> ShFloat(<<"f","3","2">>, 4), F64 |-> ShFloat(<<"f","6","4">>, 8)]

\* The facet Shape of the type that a TypeArg describes.  A Shape carries no
\* lifetime, so the lifetime of a reference has no counterpart.
RECURSIVE ShapeOf(_)
ShapeOf(ty) ==
    CASE ty.kind \in DOMAIN NumericShape -> NumericShape[ty.kind]
      [] ty.kind = "Bool" -> ShPrimitive("Boolean", <<"b","o","o","l">>, Some(1))
      [] ty.kind = "Char" -> ShPrimitive("Char", <<"c","h","a","r">>, Some(4))
      [] ty.kind = "Str" -> ShPrimitive("Str", <<"s","t","r">>, None)
      [] ty.kind = "Never" -> ShPrimitive("Never", <<"!">>, Some(0))
      [] ty.kind = "Unit" -> ShTuple(<<>>)
      [] ty.kind = "Reference" -> ShReference(ty.mutable, ShapeOf(ty.inner))
      [] ty.kind = "RawPtr" -> ShRaw(ty.mutable, ShapeOf(ty.inner))
      [] ty.kind = "Tuple" ->
            ShTuple([i \in 1..Len(ty.elements) |-> ShapeOf(ty.elements[i])])
      [] ty.kind = "Array" -> ShArray(ShapeOf(ty.inner), ty.len)
      [] ty.kind = "Slice" -> ShSlice(ShapeOf(ty.inner))

\* print_type on the shape of the type the first call encoded, on a
\* V0SymbolMangler whose buffer starts like the first call's did.
CallPrintTypeOfSame ==
    /\ first.fn = "encode_type_arg"
    /\ second.fn = "none"
    /\ LET shape == ShapeOf(first.ty)
           printed == print_type([V0SymbolMangler_new EXCEPT !.out = first.before], shape)
       IN  second' = [fn |-> "print_type", shape |-> shape, before |-> first.before,
                      after |-> printed.out, backrefs |-> printed.backrefs]
    /\ UNCHANGED <<first, builder, result, mangler, symbol_mangler, called>>

NextType ==
    \/ CallEncodeTypeArg
    \/ CallEncodePrimitiveAgain
    \/ CallPrintTypeOfSame
    \/ CallEncodeLifetimeArg
    \/ CallEncodeGenericArg

SpecType == InitCalls /\ [][NextType]_vars

\* ------------------------------------- encode_type_arg, one call at a time
\* The recursion of encode_type_arg unfolded: stack holds what is still to be
\* done, first to do first.  A frame is a call of encode_type_arg on a type
\* (the call itself or one of its recursive calls), or what a caller does
\* after a recursive call has returned: push a text, or push an array length.

CallFrame(ty) == [kind |-> "call", ty |-> ty]
PushFrame(s) == [kind |-> "push", s |-> s]
LenFrame(len) == [kind |-> "len", len |-> len]

\* What a call of encode_type_arg pushes before its first recursive call.
type_arg_opening(m, ty) ==
    CASE ty.kind \in DOMAIN PrimitiveTag -> m_push(m, <<PrimitiveTag[ty.kind]>>)
      [] ty.kind = "Reference" ->
            LET m1 == m_push(m, IF ty.mutable THEN <<"Q">> ELSE <<"R">>)
            IN  IF ty.lifetime.some
                THEN encode_lifetime_arg(m1, ty.lifetime.val)
                ELSE m_push_integer_62(m_push(m1, <<"L">>), 0)
      [] ty.kind = "RawPtr" -> m_push(m, IF ty.mutable THEN <<"O">> ELSE <<"P">>)
      [] ty.kind = "Tuple" -> m_push(m, <<"T">>)
      [] ty.kind = "Array" -> m_push(m, <<"A">>)
      [] ty.kind = "Slice" -> m_push(m, <<"S">>)

\* A call that encodes every tuple element twice and the inner type of an
\* array not at all.
type_arg_rest_uneven(ty) ==
    CASE ty.kind \in DOMAIN PrimitiveTag -> <<>>
      [] ty.kind \in {"Reference", "RawPtr", "Slice"} -> <<CallFrame(ty.inner)>>
      [] ty.kind = "Tuple" ->
            [i \in 1..(2 * Len(ty.elements)) |-> CallFrame(ty.elements[(i + 1) \div 2])]
                \o <<PushFrame(<<"E">>)>>
      [] ty.kind = "Array" -> <<LenFrame(ty.len)>>

\* What a call of encode_type_arg does after that, in order: its recursive
\* calls, one for the inner type or for each element, and its later pushes.
type_arg_rest(ty) ==
    CASE ty.kind \in DOMAIN PrimitiveTag -> <<>>
      [] ty.kind \in {"Reference", "RawPtr", "Slice"} -> <<CallFrame(ty.inner)>>
      [] ty.kind = "Tuple" ->
            [i \in 1..Len(ty.elements) |-> CallFrame(ty.elements[i])]
                \o <<PushFrame(<<"E">>)>>
      [] ty.kind = "Array" -> <<CallFrame(ty.inner), LenFrame(ty.len)>>

Encoding == first.fn = "encode_type_arg steps"

\* self.encode_type_arg(&mut m, ty) is entered on a new mangler.
EnterEncodeTypeArg ==
    /\ first.fn = "none"
    /\ \E ty \in TypeArgs :
           first' = [fn |-> "encode_type_arg steps", ty |-> ty, m |-> V0Mangler_new,
                     stack |-> <<CallFrame(ty)>>, calls |-> 0]
    /\ UNCHANGED <<second, builder, result, mangler, symbol_mangler, called>>

\* A call of encode_type_arg starts: it pushes its opening and has its
\* recursive calls and later pushes still to do.
StepCall ==
    /\ Encoding
    /\ first.stack # <<>>
    /\ Head(first.stack).kind = "call"
    /\ LET ty == Head(first.stack).ty
       IN  first' = [first EXCEPT !.m = type_arg_opening(first.m, ty),
                                  !.stack = type_arg_rest(ty) \o Tail(first.stack),
                                  !.calls = first.calls + 1]
    /\ UNCHANGED <<second, builder, result, mangler, symbol_mangler, called>>

\* A recursive call has returned and the caller goes on: m.push("E"), or
\* m.push("K"); m.push("j"); m.push_integer_62(*len as u64).
StepAfterCall ==
    /\ Encoding
    /\ first.stack # <<>>
    /\ Head(first.stack).kind # "call"
    /\ LET frame == Head(first.stack)
       IN  first' = [first EXCEPT
                        !.m = IF frame.kind = "push" THEN m_push(first.m, frame.s)
                              ELSE m_push_integer_62(m_push(first.m, <<"K", "j">>),
                                                     frame.len),
                        !.stack = Tail(first.stack)]
    /\ UNCHANGED <<second, builder, result, mangler, symbol_mangler, called>>

StepEncode == StepCall \/ StepAfterCall

NextEncode ==
    \/ EnterEncodeTypeArg
    \/ StepCall
    \/ StepAfterCall

\* A call that has begun keeps running: the program is sequential and
\* nothing can hold a step of it back.
SpecEncode == InitCalls /\ [][NextEncode]_vars /\ WF_vars(StepEncode)

\* ------------------------------------------------------ V0Mangler: the calls
\* One session: V0Mangler::new, then calls of its methods.  called holds the
\* last call, the mangler it was made on and the number of calls so far.

Started == [fn |-> "new", n |-> 0]

PushTexts == {<<"C","7","m","y","c","r","a","t","e">>, <<"N","t">>}
ManglerNames == {<<"f","o","o">>}
\* What a print_prefix closure pushes: nothing, or a crate root.
PrefixTexts == {<<>>, <<"C","7","m","y","c","r","a","t","e">>}
CacheKeys == {"path1", "path2"}

InitMangler ==
    /\ first = NoCall
    /\ second = NoCall
    /\ builder = NoBuilder
    /\ result = NoResult
    /\ mangler = V0Mangler_new
    /\ symbol_mangler = NoMangler
    /\ called = Started

ManglerCall(call, after) ==
    /\ called.n < MaxManglerOps
    /\ mangler' = after
    /\ called' = call @@ [n |-> called.n + 1, before |-> mangler]
    /\ UNCHANGED <<first, second, builder, result, symbol_mangler>>

MPush ==
    \E s \in PushTexts : ManglerCall([fn |-> "push", s |-> s], m_push(mangler, s))

MPushIdent ==
    \E ident \in ManglerNames :
        ManglerCall([fn |-> "push_ident", ident |-> ident], m_push_ident(mangler, ident))

MPathAppendNs ==
    \E prefix \in PrefixTexts, ns \in {"v", "t"}, dis \in 0..MaxDis, name \in ManglerNames :
        ManglerCall([fn |-> "path_append_ns", prefix |-> prefix, ns |-> ns,
                     dis |-> dis, name |-> name],
                    path_append_ns(mangler, prefix, ns, dis, name))

MTryCachePath ==
    \E key \in CacheKeys :
        LET r == try_cache_path(mangler, key)
        IN  ManglerCall([fn |-> "try_cache_path", key |-> key, hit |-> r.hit], r.m)

NextMangler ==
    \/ MPush
    \/ MPushIdent
    \/ MPathAppendNs
    \/ MTryCachePath

SpecMangler == InitMangler /\ [][NextMangler]_vars

\* ------------------------------------------------ V0SymbolMangler: the calls

U32Shape == ShInteger(<<"u","3","2">>, FALSE, 4)
I64Shape == ShInteger(<<"i","6","4">>, TRUE, 8)

Shapes ==
    {U32Shape, I64Shape,
     ShInteger(<<"i","s","i","z","e">>, TRUE, 8),
     ShInteger(<<"u","s","i","z","e">>, FALSE, 8),
     ShFloat(<<"f","1","6">>, 2),
     ShPrimitive("Str", <<"s","t","r">>, None),
     ShTuple(<<>>),
     ShStruct(<<"F","o","o">>, "Struct", <<U32Shape>>),
     ShUser("Enum", <<"B","a","r">>),
     ShOther("Function", <<"f","n">>),
     ShReference(FALSE, U32Shape),
     ShReference(TRUE, ShSlice(U32Shape)),
     ShRaw(FALSE, U32Shape),
     ShSlice(U32Shape),
     ShArray(U32Shape, 10),
     ShTuple(<<U32Shape, I64Shape>>),
     ShTuple(<<ShReference(FALSE, U32Shape), ShReference(FALSE, U32Shape)>>),
     ShTuple(<<ShArray(U32Shape, 10), ShArray(I64Shape, 10)>>)}

DefIds == {[krate |-> 0, index |-> 1], [krate |-> 0, index |-> 2]}
DefPathArgs == {<<>>, <<[kind |-> "Const", value |-> 10]>>}
ConstValues == {[value |-> 0], [value |-> 10]}

InitSymbolMangler ==
    /\ first = NoCall
    /\ second = NoCall
    /\ builder = NoBuilder
    /\ result = NoResult
    /\ mangler = NoMangler
    /\ symbol_mangler = V0SymbolMangler_new
    /\ called = Started

SymbolManglerCall(call, after) ==
    /\ called.n < MaxPrintOps
    /\ symbol_mangler' = after
    /\ called' = call @@ [n |-> called.n + 1, before |-> symbol_mangler]
    /\ UNCHANGED <<first, second, builder, result, mangler>>

PrintDefPath ==
    \E def_id \in DefIds, args \in DefPathArgs :
        SymbolManglerCall([fn |-> "print_def_path", def_id |-> def_id, args |-> args],
                          print_def_path(symbol_mangler, def_id, args))

PrintType ==
    \E shape \in Shapes :
        SymbolManglerCall([fn |-> "print_type", shape |-> shape,
                           ret |-> print_type_ret(symbol_mangler, shape)],
                          print_type(symbol_mangler, shape))

\* print_const is private to the module; print_type calls it for an array
\* length, and this is a call of it on its own.
PrintConst ==
    \E const_val \in ConstValues :
        SymbolManglerCall([fn |-> "print_const", const_val |-> const_val],
                          print_const(symbol_mangler, const_val))

NextSymbolMangler ==
    \/ PrintDefPath
    \/ PrintType
    \/ PrintConst

SpecSymbolMangler == InitSymbolMangler /\ [][NextSymbolMangler]_vars

\* --------------------------------------- a session of either of the manglers

\* One session of a V0Mangler or of a V0SymbolMangler, whichever was created.
InitSession == InitMangler \/ InitSymbolMangler

ManglerSession == mangler # NoMangler /\ NextMangler

SymbolManglerSession == symbol_mangler # NoMangler /\ NextSymbolMangler

NextSession ==
    \/ ManglerSession
    \/ SymbolManglerSession

SpecSession == InitSession /\ [][NextSession]_vars

\* =================================================================== claims

IdentChars == Range(Digits) \cup Range(Lower) \cup Range(Upper) \cup {"_"}

\* Every byte of the identifier is one of '_', a-z, A-Z, 0-9.
InAsciiClass(ident) == \A i \in DOMAIN ident : ident[i] \in IdentChars

\* The digit for a value 0..61, by the three ranges.
DigitChar(d) ==
    IF d <= 9 THEN Digits[d + 1]
    ELSE IF d <= 35 THEN Lower[d - 9]
    ELSE Upper[d - 35]

\* The base-62 digits of n, most significant first.
RECURSIVE MsbDigits(_)
MsbDigits(n) ==
    IF n < 62 THEN <<DigitChar(n)>>
    ELSE MsbDigits(n \div 62) \o <<DigitChar(n % 62)>>

Base62Text(x) == IF x = 0 THEN <<"_">> ELSE MsbDigits(x - 1) \o <<"_">>

C1_Expected ==
    (0 :> <<"_">>) @@ (1 :> <<"0","_">>) @@ (62 :> <<"Z","_">>)
        @@ (63 :> <<"1","0","_">>) @@ (3844 :> <<"Z","Z","_">>)
        @@ (3845 :> <<"1","0","0","_">>)

\* C1: push_integer_62 / encode_integer_62 append "_" for 0 and otherwise the
\* base-62 digits of x - 1, most significant first, over 0-9 a-z A-Z, then
\* "_"; 1 -> "0_", 62 -> "Z_", 63 -> "10_", 3844 -> "ZZ_", 3845 -> "100_".
C1_Base62Format ==
    /\ first.fn = "push_integer_62" =>
           /\ first.after = first.before \o Base62Text(first.x)
           /\ first.x \in DOMAIN C1_Expected => Appended(first) = C1_Expected[first.x]
    /\ first.fn = "encode_integer_62" =>
           /\ first.ret = Base62Text(first.x)
           /\ first.x \in DOMAIN C1_Expected => first.ret = C1_Expected[first.x]

C1_Witness ==
    /\ first.fn = "push_integer_62"
    /\ first.x = 3845
    /\ first.before = <<"_", "R">>

\* C2 (as claimed): decode_base62 of the digits that encode_integer_62(x)
\* wrote before "_" gives back x, for every x, 0 included.
C2_RoundTrip ==
    second.fn = "decode_base62" => second.ret = Some(first.x)

C3_Holds(c) ==
    (c.fn = "push_ident" /\ InAsciiClass(c.ident)) =>
        /\ ~c.panicked
        /\ c.after =
               ((c.before \o ToDecimal(Len(c.ident)))
                   \o (IF c.ident # <<>> /\ c.ident[1] \in Range(Digits) \cup {"_"}
                       THEN <<"_">> ELSE <<>>))
                   \o c.ident
        /\ Appended(c)[1] # "u"
        /\ c.ident = <<"e","x","a","m","p","l","e">> =>
               Appended(c) = <<"7","e","x","a","m","p","l","e">>
        /\ c.ident = <<"_","f","o","o">> => Appended(c) = <<"4","_","_","f","o","o">>
        /\ c.ident = <<"0","a","b","c">> => Appended(c) = <<"4","_","0","a","b","c">>
        /\ c.ident = <<>> => Appended(c) = <<"0">>
        /\ c.ident = <<"a","a","a","a","a","a","a","a","a","a">> =>
               Appended(c) = <<"1","0","a","a","a","a","a","a","a","a","a","a">>

\* C3: for an identifier over '_', a-z, A-Z, 0-9 (the empty one included)
\* push_ident appends the decimal byte length, then "_" iff the first
\* character is a digit or "_", then the identifier, and no "u" prefix.
C3_AsciiIdentFormat == C3_Holds(first) /\ C3_Holds(second)

C3_Witness ==
    /\ first.fn = "push_ident"
    /\ first.ident = <<"0","a","b","c">>
    /\ first.before = <<"_", "R">>
    /\ ~first.panicked

C4_Distinct(a, b) ==
    /\ (InAsciiClass(a.ident) /\ InAsciiClass(b.ident) /\ a.ident # b.ident) =>
           Appended(a) # Appended(b)
    /\ (InAsciiClass(a.ident) /\ ~InAsciiClass(b.ident)) =>
           /\ Appended(a) # Appended(b)
           /\ Appended(a)[1] \in Range(Digits)
           /\ Appended(b)[1] = "u"

\* C4: two different identifiers over '_', a-z, A-Z, 0-9 never get the same
\* push_ident output, and an ASCII-path output (it starts with a digit)
\* never equals a transliterated output (it starts with "u").
C4_IdentInjective ==
    (/\ first.fn = "push_ident" /\ second.fn = "push_ident"
     /\ ~first.panicked /\ ~second.panicked) =>
        C4_Distinct(first, second) /\ C4_Distinct(second, first)

C4_Witness ==
    /\ first.fn = "push_ident" /\ first.ident = <<"n","d","a">>
    /\ second.fn = "push_ident" /\ second.ident = <<"U+F6">>
    /\ ~first.panicked /\ ~second.panicked

\* The identifier holds an ASCII character other than '_', a-z, A-Z, 0-9.
HasInvalidAscii(ident) ==
    \E i \in DOMAIN ident : IsAscii(ident[i]) /\ ident[i] \notin IdentChars

C5_Holds(c) ==
    (c.fn = "push_ident" /\ HasInvalidAscii(c.ident)) =>
        c.panicked /\ c.after = c.before

\* C5: push_ident panics on every identifier that holds a byte below 0x80
\* other than '_', a-z, A-Z, 0-9, wherever it stands and whether or not
\* non-ASCII bytes are present too, and has appended nothing by then.
C5_InvalidByteRejected == C5_Holds(first) /\ C5_Holds(second)

C5_Witness ==
    /\ first.fn = "push_ident"
    /\ first.ident = <<"U+F6","a"," ">>
    /\ first.before = <<"_", "R">>
    /\ first.panicked

C6_Holds(c, tag) ==
    /\ c.x = 0 => c.after = c.before
    /\ c.x > 0 => c.after = (c.before \o tag) \o encode_integer_62(c.x - 1)
    /\ c.x = 1 => Appended(c) = tag \o <<"_">>
    /\ c.x = 2 => Appended(c) = tag \o <<"0","_">>
    /\ c.x = 100 => Appended(c) = tag \o <<"1","A","_">>

\* C6: push_opt_integer_62(tag, x) appends nothing for x = 0 and tag followed
\* by encode_integer_62(x - 1) for x > 0 (1 -> tag "_", 2 -> tag "0_",
\* 100 -> tag "1A_"); push_disambiguator is this with tag "s".
C6_OptInteger62 ==
    /\ first.fn = "push_opt_integer_62" => C6_Holds(first, first.tag)
    /\ first.fn = "push_disambiguator" => C6_Holds(first, <<"s">>)

C6_Witness ==
    /\ first.fn = "push_opt_integer_62"
    /\ first.x = 100
    /\ first.tag = <<"x", "y">>
    /\ first.before = <<"_", "R">>

\* The text of a disambiguator and of an identifier on their own.
DisText(dis) == push_disambiguator(dis, <<>>)
IdentText(name) == push_ident(name, <<>>).out

\* s occurs in t as a run of consecutive characters.
IsSubstring(s, t) ==
    \E k \in 0..(Len(t) - Len(s)) : SubSeq(t, k + 1, k + Len(s)) = s

IsPathCall(c) == c.fn = "encode_simple_path_with_crate_hash"

\* C7: encode_simple_path wraps by prefix: one crate segment gives "C" +
\* disambiguator + ident, and the path of k+1 segments is "N" + the tag of
\* segment k+1 + the whole path of the first k segments + the disambiguator
\* and ident of segment k+1, so the shorter path is a substring of the
\* longer; [crate mycrate, value foo] gives "NvC7mycrate3foo".
C7_PrefixWrapping ==
    (IsPathCall(first) /\ first.segments # <<>> /\ first.segments[1].ns = "Crate") =>
        LET n == Len(first.segments)
            last == first.segments[n]
        IN  /\ (n = 1 /\ ~first.crate_hash.some) =>
                   first.ret = (<<"C">> \o DisText(last.dis)) \o IdentText(last.name)
            /\ IsPathCall(second) =>
                   /\ second.segments = SubSeq(first.segments, 1, n - 1)
                   /\ first.ret =
                          ((<<"N", NamespaceTag(last.ns)>> \o second.ret)
                              \o DisText(last.dis)) \o IdentText(last.name)
                   /\ IsSubstring(second.ret, first.ret)
            /\ (/\ first.segments =
                      <<[name |-> <<"m","y","c","r","a","t","e">>, ns |-> "Crate", dis |-> 0],
                        [name |-> <<"f","o","o">>, ns |-> "Value", dis |-> 0]>>
                /\ ~first.crate_hash.some) =>
                   first.ret = <<"N","v","C","7","m","y","c","r","a","t","e","3","f","o","o">>

C7_Witness ==
    /\ IsPathCall(first) /\ IsPathCall(second)
    /\ Len(first.segments) = MaxPathLen
    /\ first.segments[1].ns = "Crate"
    /\ first.segments[1].dis = 1
    /\ first.segments[MaxPathLen].dis = 1
    /\ ~first.crate_hash.some

IsOneCrateSegment(c) ==
    IsPathCall(c) /\ Len(c.segments) = 1 /\ c.segments[1].ns = "Crate"

\* C8 (as claimed): the crate segment is "C", then "s" + hash + "_" when a
\* hash is supplied, then the segment's disambiguator, then the identifier,
\* for every combination of hash and disambiguator (stated here for the
\* absent and the non-empty hashes).
C8_HashThenDisambiguator ==
    (IsOneCrateSegment(first) /\ first.crate_hash # Some(<<>>)) =>
        first.ret =
            ((<<"C">> \o (IF first.crate_hash.some
                          THEN (<<"s">> \o first.crate_hash.val) \o <<"_">>
                          ELSE <<>>))
                \o DisText(first.segments[1].dis))
                \o IdentText(first.segments[1].name)

\* C8 (amended): the crate segment is "C" + "s" + hash + "_" + ident when a
\* non-empty hash is supplied (the segment's disambiguator is not written),
\* "C" + ident when the supplied hash is empty, and "C" + disambiguator +
\* ident when no hash is supplied; encode_crate_root_with_hash and
\* encode_crate_root write the same forms.
C8_HashReplacesDisambiguator ==
    /\ IsOneCrateSegment(first) =>
           LET seg == first.segments[1]
               hash == first.crate_hash
           IN  first.ret =
                   IF hash.some /\ hash.val # <<>>
                   THEN ((<<"C", "s">> \o hash.val) \o <<"_">>) \o IdentText(seg.name)
                   ELSE IF hash.some THEN <<"C">> \o IdentText(seg.name)
                   ELSE (<<"C">> \o DisText(seg.dis)) \o IdentText(seg.name)
    /\ first.fn = "encode_crate_root_with_hash" =>
           first.ret =
               IF first.hash # <<>>
               THEN ((<<"C", "s">> \o first.hash) \o <<"_">>) \o IdentText(first.name)
               ELSE <<"C">> \o IdentText(first.name)
    /\ first.fn = "encode_crate_root" =>
           first.ret = (<<"C">> \o DisText(first.dis)) \o IdentText(first.name)

C8_Witness ==
    /\ IsOneCrateSegment(first)
    /\ first.crate_hash.some
    /\ first.crate_hash.val # <<>>
    /\ first.segments[1].dis = 1

\* The segment list the claim describes: the crate (disambiguator 0), then
\* the builder's segments in order, each with its namespace.
C9_Segments(b) ==
    <<[name |-> b.crate_name, ns |-> "Crate", dis |-> 0]>>
        \o [i \in 1..Len(b.segments) |->
                [name |-> b.segments[i].name, ns |-> b.segments[i].ns, dis |-> 0]]

\* crate test_symbols, hash aRN1VPjcjfp, module inner, function inner_function
C9_Example ==
    [SymbolBuilder_new(<<"t","e","s","t","_","s","y","m","b","o","l","s">>) EXCEPT
        !.crate_hash = Some(<<"a","R","N","1","V","P","j","c","j","f","p">>),
        !.segments =
            <<[name |-> <<"i","n","n","e","r">>, ns |-> "Type"],
              [name |-> <<"i","n","n","e","r","_","f","u","n","c","t","i","o","n">>,
               ns |-> "Value"]>>]

C9_ExampleSymbol ==
    <<"_","R","N","v","N","t","C","s","a","R","N","1","V","P","j","c","j","f","p","_",
      "1","2","t","e","s","t","_","s","y","m","b","o","l","s",
      "5","i","n","n","e","r",
      "1","4","i","n","n","e","r","_","f","u","n","c","t","i","o","n">>

IsPlain(b) == b.segments # <<>> /\ ~b.method_info.some /\ b.generic_args = <<>>

\* C9: with at least one segment, no method and no generic arguments,
\* build() is "_R" + build_path(), and build_path() is
\* encode_simple_path_with_crate_hash of the crate segment followed by the
\* segments in the order they were added, with the configured hash.
C9_PlainBuild ==
    /\ (result.fn = "build" /\ IsPlain(builder)) =>
           /\ result.value.kind = "Ok"
           /\ build_path(builder).kind = "Ok"
           /\ result.value.val = <<"_", "R">> \o build_path(builder).val
           /\ result.value.val =
                  <<"_", "R">> \o encode_simple_path_with_crate_hash(
                                      C9_Segments(builder), builder.crate_hash)
    /\ (result.fn = "build_path" /\ IsPlain(builder)) =>
           result.value =
               Ok(encode_simple_path_with_crate_hash(C9_Segments(builder),
                                                     builder.crate_hash))
    /\ result.fn = "build" => build(C9_Example) = Ok(C9_ExampleSymbol)

C9_Witness ==
    /\ result.fn = "build"
    /\ IsPlain(builder)
    /\ builder.crate_hash.some
    /\ Len(builder.segments) = 2
    /\ builder.segments[1].ns = "Type"
    /\ builder.segments[2].ns = "Value"
    /\ result.value.kind = "Ok"

\* C10: every Ok value that build() returns, from the plain, the generic and
\* the method branch alike, begins with "_R".
C10_SymbolPrefix ==
    (result.fn = "build" /\ result.value.kind = "Ok") =>
        /\ Len(result.value.val) >= 2
        /\ SubSeq(result.value.val, 1, 2) = <<"_", "R">>

C10_Witness ==
    /\ result.fn = "build"
    /\ result.value.kind = "Ok"
    /\ builder.method_info.some
    /\ builder.generic_args # <<>>

\* Builders without a terminal item: crate names that push_ident accepts,
\* rejects (a space) and transliterates, with and without hash and generics.
C11_CrateNames ==
    {<<"m","y","c","r","a","t","e">>, <<>>, <<"a"," ">>, <<"g","U+F6","d","e","l">>}

C11_EmptyBuilders ==
    {[SymbolBuilder_new(cn) EXCEPT !.crate_hash = h, !.generic_args = g] :
        cn \in C11_CrateNames,
        h \in {None, Some(<<>>), Some(<<"a","R","N","1">>)},
        g \in SeqsUpTo(BuilderGenericArgs, 1)}

HasNoTerminal(b) == b.segments = <<>> /\ ~b.method_info.some

\* C11: build() and build_path() on a builder with no segment and no method
\* return Err (no symbol, no panic), whatever crate name, hash and generic
\* arguments were configured.
C11_NoTerminalIsErr ==
    /\ (result.fn \in {"build", "build_path"} /\ HasNoTerminal(builder)) =>
           result.value = Err(NoSegmentsError)
    /\ result.fn \in {"build", "build_path"} =>
           \A b \in C11_EmptyBuilders :
               build(b).kind = "Err" /\ build_path(b).kind = "Err"

C11_Witness ==
    /\ result.fn = "build"
    /\ HasNoTerminal(builder)
    /\ builder.crate_hash.some
    /\ builder.generic_args # <<>>
    /\ result.value.kind = "Err"

\* The tag character the specification gives each primitive type.
ClaimedTag ==
    [Bool |-> "b", Char |-> "c", I8 |-> "a", I16 |-> "s", I32 |-> "l",
     I64 |-> "x", I128 |-> "n", Isize |-> "i", U8 |-> "h", U16 |-> "t",
     U32 |-> "m", U64 |-> "y", U128 |-> "o", Usize |-> "j", F32 |-> "f",
     F64 |-> "d", Str |-> "e", Never |-> "z", Unit |-> "u"]

\* The texts joined in order.
RECURSIVE Concat(_)
Concat(texts) == IF texts = <<>> THEN <<>> ELSE Head(texts) \o Concat(Tail(texts))

\* 'L' + the base-62 index: 0 for erased, depth + 1 for a bound lifetime.
LifetimeText(lt) ==
    <<"L">> \o Base62Text(IF lt.kind = "Erased" THEN 0 ELSE lt.index + 1)

\* 'K' + the const-type tag 'j' + the base-62 value.
ConstText(v) == <<"K", "j">> \o Base62Text(v)

\* The text of a type, by the grammar of the specification.
RECURSIVE TypeText(_)
TypeText(ty) ==
    CASE ty.kind \in DOMAIN ClaimedTag -> <<ClaimedTag[ty.kind]>>
      [] ty.kind = "Reference" ->
            (<<IF ty.mutable THEN "Q" ELSE "R">>
                \o (IF ty.lifetime.some THEN LifetimeText(ty.lifetime.val)
                    ELSE <<"L", "_">>))
                \o TypeText(ty.inner)
      [] ty.kind = "RawPtr" -> <<IF ty.mutable THEN "O" ELSE "P">> \o TypeText(ty.inner)
      [] ty.kind = "Tuple" ->
            (<<"T">> \o Concat([i \in DOMAIN ty.elements |-> TypeText(ty.elements[i])]))
                \o <<"E">>
      [] ty.kind = "Array" -> (<<"A">> \o TypeText(ty.inner)) \o ConstText(ty.len)
      [] ty.kind = "Slice" -> <<"S">> \o TypeText(ty.inner)

GenericArgText(arg) ==
    CASE arg.kind = "Type" -> TypeText(arg.ty)
      [] arg.kind = "Lifetime" -> LifetimeText(arg.lt)
      [] arg.kind = "Const" -> ConstText(arg.val)

IsGenericPlain(b) == b.segments # <<>> /\ ~b.method_info.some /\ b.generic_args # <<>>

\* foo::<args> in mycrate
C12_Foo(args) ==
    [SymbolBuilder_new(<<"m","y","c","r","a","t","e">>) EXCEPT
        !.segments = <<[name |-> <<"f","o","o">>, ns |-> "Value"]>>,
        !.generic_args = args]

\* C12: with generic arguments on a plain path, build() is "_R" + "I" + the
\* item path + the encoding of each argument in the order the arguments
\* were added + "E"; foo::<u32> -> _RINvC7mycrate3foomE and
\* foo::<u32, i64> -> _RINvC7mycrate3foomxE.
C12_GenericInstantiation ==
    /\ (result.fn = "build" /\ IsGenericPlain(builder)) =>
           result.value =
               Ok(((<<"_", "R", "I">>
                    \o encode_simple_path_with_crate_hash(C9_Segments(builder),
                                                          builder.crate_hash))
                    \o Concat([i \in DOMAIN builder.generic_args |->
                                  GenericArgText(builder.generic_args[i])]))
                    \o <<"E">>)
    /\ result.fn = "build" =>
           /\ build(C12_Foo(<<GenericType(Prim("U32"))>>)) =
                  Ok(<<"_","R","I","N","v","C","7","m","y","c","r","a","t","e",
                       "3","f","o","o","m","E">>)
           /\ build(C12_Foo(<<GenericType(Prim("U32")), GenericType(Prim("I64"))>>)) =
                  Ok(<<"_","R","I","N","v","C","7","m","y","c","r","a","t","e",
                       "3","f","o","o","m","x","E">>)

C12_Witness ==
    /\ result.fn = "build"
    /\ IsGenericPlain(builder)
    /\ Len(builder.generic_args) = 2
    /\ builder.generic_args[1].kind = "Const"
    /\ builder.generic_args[2].kind = "Type"
    /\ result.value.kind = "Ok"

\* C13: encode_type_arg appends, for every TypeArg, the text of the grammar:
\* a primitive's tag character (the 19 tags all distinct), 'R'/'Q' +
\* lifetime + inner for a reference, 'P'/'O' + inner for a raw pointer,
\* 'T' + the elements in order + 'E' for a tuple, 'A' + element + const
\* length for an array, 'S' + element for a slice.
C13_TypeEncoding ==
    /\ first.fn = "encode_type_arg" => first.after = first.before \o TypeText(first.ty)
    /\ (/\ first.fn = "encode_type_arg" /\ second.fn = "encode_type_arg"
        /\ first.ty \in TypePrims /\ first.ty # second.ty) =>
           /\ Len(Appended(first)) = 1
           /\ Len(Appended(second)) = 1
           /\ Appended(first) # Appended(second)

C13_Witness ==
    /\ first.fn = "encode_type_arg"
    /\ first.ty = Reference(Some(Bound(1)), TRUE, Tuple(<<Prim("U32"), Prim("I64")>>))
    /\ first.after # first.before

C14_LifetimeHolds(lt, text) ==
    /\ lt.kind = "Erased" => text = <<"L", "_">>
    /\ lt.kind = "Bound" =>
           /\ text = <<"L">> \o encode_integer_62(lt.index + 1)
           /\ text = <<"L">> \o MsbDigits(lt.index) \o <<"_">>
           /\ text # <<"L", "_">>

\* C14: a lifetime is 'L' + encode_integer_62(index), index 0 for erased and
\* depth + 1 for bound: LifetimeArg::Erased and a Reference with lifetime
\* None give "L_", Bound{index: i} gives 'L' + encode_integer_62(i + 1),
\* which is never "L_".
C14_LifetimeEncoding ==
    /\ first.fn = "encode_lifetime_arg" => C14_LifetimeHolds(first.lt, Appended(first))
    /\ (first.fn = "encode_generic_arg" /\ first.arg.kind = "Lifetime") =>
           C14_LifetimeHolds(first.arg.lt, Appended(first))
    /\ (first.fn = "encode_type_arg" /\ first.ty.kind = "Reference") =>
           LET text == Appended(first)
               inner == Len(TypeText(first.ty.inner))
               lifetime == SubSeq(text, 2, Len(text) - inner)
           IN  IF first.ty.lifetime.some
               THEN C14_LifetimeHolds(first.ty.lifetime.val, lifetime)
               ELSE lifetime = <<"L", "_">>

C14_Witness ==
    /\ first.fn = "encode_lifetime_arg"
    /\ first.lt = Bound(2147483646)
    /\ first.after # first.before

\* C15 (as claimed): every constant is written as 'K' + the const-type tag
\* 'j' + encode_integer_62(value); stated here for V0SymbolMangler's
\* print_const, called on its own or by print_type for an array length.
C15_ConstEncoding ==
    /\ called.fn = "print_const" =>
           symbol_mangler.out = called.before.out \o ConstText(called.const_val.value)
    /\ (called.fn = "print_type" /\ called.shape = ShArray(U32Shape, 10)
        /\ called.before.out = <<"_", "R">>) =>
           symbol_mangler.out = <<"_","R","A","m","K","j","9","_">>

IsCompound(ty) == ty.kind \in {"Reference", "RawPtr", "Tuple", "Array", "Slice"}

\* C16 (as claimed): a compound shape given twice in one call is written in
\* full the first time and as a backreference token, shorter than the full
\* form, the second time; stated here for two equal generic arguments of
\* SymbolBuilder.
C16_RepeatedShapeBackref ==
    (/\ result.fn = "build" /\ IsGenericPlain(builder)
     /\ Len(builder.generic_args) = 2
     /\ builder.generic_args[1] = builder.generic_args[2]
     /\ builder.generic_args[1].kind = "Type"
     /\ IsCompound(builder.generic_args[1].ty)) =>
        LET full == TypeText(builder.generic_args[1].ty)
            head == <<"_", "R", "I">>
                        \o encode_simple_path_with_crate_hash(C9_Segments(builder),
                                                              builder.crate_hash)
            sym == result.value.val
            args == SubSeq(sym, Len(head) + 1, Len(sym) - 1)
            again == SubSeq(args, Len(full) + 1, Len(args))
        IN  /\ result.value.kind = "Ok"
            /\ SubSeq(args, 1, Len(full)) = full
            /\ again # <<>>
            /\ again[1] = "B"
            /\ Len(again) < Len(full)

\* C17: try_cache_path(key) on a miss records the current output length
\* under key, returns false and leaves the output as it was; on a hit it
\* returns true, appends 'B' + encode_integer_62(recorded position - 2)
\* (position 2 gives "B_") and leaves every recorded position as it was.
C17_TryCachePath ==
    called.fn = "try_cache_path" =>
        LET before == called.before
            key == called.key
        IN  IF key \in DOMAIN before.paths
            THEN /\ called.hit
                 /\ before.paths[key] >= 2
                 /\ mangler.out =
                        (before.out \o <<"B">>) \o Base62Text(before.paths[key] - 2)
                 /\ mangler.out =
                        (before.out \o <<"B">>) \o encode_integer_62(before.paths[key] - 2)
                 /\ before.paths[key] = 2 =>
                        mangler.out = before.out \o <<"B", "_">>
                 /\ mangler.paths = before.paths
            ELSE /\ ~called.hit
                 /\ mangler.out = before.out
                 /\ DOMAIN mangler.paths = DOMAIN before.paths \cup {key}
                 /\ mangler.paths[key] = Len(before.out)
                 /\ \A k \in DOMAIN before.paths : mangler.paths[k] = before.paths[k]

C17_Witness ==
    /\ called.fn = "try_cache_path"
    /\ called.hit
    /\ called.before.paths[called.key] > 2
    /\ mangler.out # called.before.out

\* C18 (as claimed): every backreference printed from a cached position
\* names a position below the length the buffer had when the backreference
\* was printed; stated here for V0SymbolMangler.
C18_BackrefBelowLength ==
    \A i \in DOMAIN symbol_mangler.backrefs :
        symbol_mangler.backrefs[i].pos < symbol_mangler.backrefs[i].at

\* The crate root of a builder: "C", "s" + hash + "_" for a non-empty hash,
\* the crate name.
CrateRootText(b) ==
    (<<"C">> \o (IF b.crate_hash.some /\ b.crate_hash.val # <<>>
                 THEN (<<"s">> \o b.crate_hash.val) \o <<"_">>
                 ELSE <<>>))
        \o IdentText(b.crate_name)

\* How many times s occurs in t.
Occurrences(s, t) ==
    Cardinality({k \in 0..(Len(t) - Len(s)) : SubSeq(t, k + 1, k + Len(s)) = s})

\* crate test_symbols, hash aRN1VPjcjfp, method(SimpleStruct, new)
C19_Example ==
    [SymbolBuilder_new(<<"t","e","s","t","_","s","y","m","b","o","l","s">>) EXCEPT
        !.crate_hash = Some(<<"a","R","N","1","V","P","j","c","j","f","p">>),
        !.method_info =
            Some([impl_path |-> <<>>,
                  type_name |-> <<"S","i","m","p","l","e","S","t","r","u","c","t">>,
                  method_name |-> <<"n","e","w">>])]

C19_ExampleSymbol ==
    <<"_","R","N","v","M","C","s","a","R","N","1","V","P","j","c","j","f","p","_",
      "1","2","t","e","s","t","_","s","y","m","b","o","l","s",
      "N","t","B","2","_",
      "1","2","S","i","m","p","l","e","S","t","r","u","c","t","3","n","e","w">>

BackreferencesMessages == {}

\* C20 (as claimed): build() on a builder configured with method() returns
\* Err, with a message that holds the word "backreferences".
C20_MethodIsErr ==
    (result.fn = "build" /\ builder.method_info.some) =>
        /\ result.value.kind = "Err"
        /\ result.value.msg \in BackreferencesMessages

HasTerminal(b) == b.segments # <<>> \/ b.method_info.some

\* C21 (as claimed): with at least one generic argument attached, build()
\* returns the generic-instantiation form, "_RI" ... "E" holding the
\* encoding of every attached argument, for every terminal kind, a method
\* included.
C21_GenericsNeverDropped ==
    (result.fn = "build" /\ HasTerminal(builder) /\ builder.generic_args # <<>>) =>
        LET sym == result.value.val
        IN  /\ result.value.kind = "Ok"
            /\ Len(sym) >= 4
            /\ SubSeq(sym, 1, 3) = <<"_", "R", "I">>
            /\ sym[Len(sym)] = "E"
            /\ \A i \in DOMAIN builder.generic_args :
                   IsSubstring(GenericArgText(builder.generic_args[i]), sym)

\* C22 (as claimed): a tuple of no elements is written as the unit
\* primitive 'u', not as "TE"; stated here for SymbolBuilder's
\* encode_type_arg.
C22_EmptyTupleIsUnit ==
    (first.fn = "encode_type_arg" /\ first.ty = Tuple(<<>>)) =>
        Appended(first) = <<"u">>

\* The shapes outside the supported set: nominal user types, floats of a
\* width other than 4 or 8 bytes, function pointers and the like.
IsUnsupportedShape(shape) ==
    \/ shape.ty \in {"Enum", "Union", "Opaque", "Function"}
    \/ shape.ty = "Struct" /\ shape.kind # "Tuple" /\ shape.fields # <<>>
    \/ shape.ty = "Float" /\ shape.size \notin {Some(4), Some(8)}

\* C23 (as claimed): print_type on a shape outside the supported set returns
\* an error and leaves the output buffer and the type cache as they were.
C23_UnsupportedShapeIsErr ==
    (called.fn = "print_type" /\ IsUnsupportedShape(called.shape)) =>
        /\ called.ret = "Err"
        /\ symbol_mangler.out = called.before.out
        /\ symbol_mangler.types = called.before.types

\* The tag the claim gives each numeric kind, by the kind's name.
ClaimedNumericTag(id) ==
    CASE id = <<"i","s","i","z","e">> -> "i"
      [] id = <<"u","s","i","z","e">> -> "j"
      [] id = <<"i","6","4">> -> "x"
      [] id = <<"u","3","2">> -> "m"
      [] OTHER -> "?"

\* C24 (as claimed): print_type tags every numeric kind with its own
\* character; the pointer-sized integers are 'i' and 'j' whatever their byte
\* width, so isize never shares the tag of i64 nor usize that of u64.
C24_NumericTags ==
    (called.fn = "print_type" /\ called.shape.ty = "Integer") =>
        symbol_mangler.out =
            called.before.out \o <<ClaimedNumericTag(called.shape.id)>>

\* Every key of the cache `before` is a key of `after`, at the same position.
Kept(before, after) ==
    \A key \in DOMAIN before : key \in DOMAIN after /\ after[key] = before[key]

\* C25: no operation of a mangler session changes or removes what a cache
\* holds: after try_cache_path every key of V0Mangler.paths is still there
\* at its position, and after print_def_path, print_type or print_const so
\* is every key of V0SymbolMangler's paths, types and consts. Holding for
\* every call of every session, it holds along any sequence of them.
C25_KeysRecordedOnce ==
    called.n > 0 =>
        /\ mangler # NoMangler => Kept(called.before.paths, mangler.paths)
        /\ symbol_mangler # NoMangler =>
               /\ Kept(called.before.paths, symbol_mangler.paths)
               /\ Kept(called.before.types, symbol_mangler.types)
               /\ Kept(called.before.consts, symbol_mangler.consts)

\* A constant already in the cache was printed again, as a backreference,
\* inside a print_type that also recorded a new shape.
C25_Witness ==
    /\ called.fn = "print_type"
    /\ called.shape.ty = "Array"
    /\ [value |-> called.shape.n] \in DOMAIN called.before.consts
    /\ ShapeKey(called.shape) \notin DOMAIN called.before.types
    /\ symbol_mangler.backrefs # called.before.backrefs
    /\ DOMAIN symbol_mangler.types # DOMAIN called.before.types

\* The number of nodes of a type tree.
RECURSIVE NodeCount(_)
RECURSIVE NodeCountAll(_, _)
NodeCountAll(elements, i) ==
    IF i > Len(elements) THEN 0
    ELSE NodeCount(elements[i]) + NodeCountAll(elements, i + 1)
NodeCount(ty) ==
    CASE ty.kind = "Tuple" -> 1 + NodeCountAll(ty.elements, 1)
      [] ty.kind \in {"Reference", "RawPtr", "Array", "Slice"} -> 1 + NodeCount(ty.inner)
      [] OTHER -> 1

\* encode_type_arg has returned, after one call for each node of the type,
\* with the text that the encoder gives for the type.
EncodeReturned ==
    /\ Encoding
    /\ first.stack = <<>>
    /\ first.calls = NodeCount(first.ty)
    /\ first.m = encode_type_arg(V0Mangler_new, first.ty)

\* C27: a call of the recursive type encoder always returns, having made
\* exactly one call of encode_type_arg for each node of the type tree: one
\* recursive call per child and none on a primitive.
C27_EncodeTerminates == Encoding ~> EncodeReturned

\* The encoder has returned from a tuple with a reference among its
\* elements, after more than three calls.
C27_Witness ==
    /\ EncodeReturned
    /\ first.ty.kind = "Tuple"
    /\ first.calls > 3
    /\ \E i \in DOMAIN first.ty.elements : first.ty.elements[i].kind = "Reference"

IsPrefix(p, s) == Len(p) <= Len(s) /\ SubSeq(s, 1, Len(p)) = p

\* The crate followed by the module segments that were there when method()
\* was called.
ImplSegments(b) ==
    <<[name |-> b.crate_name, ns |-> "Crate", dis |-> 0]>>
        \o [i \in 1..Len(b.method_info.val.impl_path) |->
                [name |-> b.method_info.val.impl_path[i].name,
                 ns |-> b.method_info.val.impl_path[i].ns, dis |-> 0]]

\* C28 (as claimed): in a method symbol the impl's enclosing path, the text
\* between "M" and the following "Nt" and backreference, is the path that
\* encode_simple_path_with_crate_hash gives for the crate and the module
\* segments: every module wraps the path before it as a prefix.
C28_ImplPathIsSimplePath ==
    (/\ result.fn = "build"
     /\ builder.method_info.some
     /\ result.value.kind = "Ok") =>
        IsPrefix(<<"_", "R", "N", "v", "M">>
                     \o encode_simple_path_with_crate_hash(ImplSegments(builder),
                                                           builder.crate_hash)
                     \o <<"N", "t", "B">>,
                 result.value.val)

\* The references of the type have an erased lifetime or none given.
RECURSIVE LifetimesErased(_)
LifetimesErased(ty) ==
    CASE ty.kind = "Reference" ->
            /\ (ty.lifetime.some => ty.lifetime.val = Erased)
            /\ LifetimesErased(ty.inner)
      [] ty.kind \in {"RawPtr", "Array", "Slice"} -> LifetimesErased(ty.inner)
      [] ty.kind = "Tuple" ->
            \A i \in DOMAIN ty.elements : LifetimesErased(ty.elements[i])
      [] OTHER -> TRUE

\* C29 (as claimed): SymbolBuilder's type encoder and print_type write the
\* same text for the same type when its lifetimes are erased and no shape or
\* constant repeats in it, that is, when print_type finds nothing to
\* backreference.
C29_EncodersAgree ==
    (/\ first.fn = "encode_type_arg"
     /\ second.fn = "print_type"
     /\ LifetimesErased(first.ty)
     /\ second.backrefs = <<>>) =>
        Appended(first) = Appended(second)

\* Every position the cache holds is at least start_offset.
AtLeastStart(cache, start_offset) == \A key \in DOMAIN cache : cache[key] >= start_offset

\* Method builders with no, one and two modules before method().
C30_MethodBuilders ==
    {C19_Example} \cup
    {[SymbolBuilder_new(<<"m","y","c","r","a","t","e">>) EXCEPT
         !.segments = impl_path,
         !.method_info = Some([impl_path |-> impl_path,
                               type_name |-> <<"F","o","o">>,
                               method_name |-> <<"n","e","w">>])] :
        impl_path \in {<<>>,
                       <<[name |-> <<"a">>, ns |-> "Type"]>>,
                       <<[name |-> <<"a">>, ns |-> "Type"],
                         [name |-> <<"i","n","n","e","r">>, ns |-> "Type"]>>}}

\* C30: every position that the manglers' operations store in a cache is at
\* least start_offset (2), and no backreference is printed for a smaller
\* position, so position - start_offset never underflows; the
\* backreference of a method symbol is always to offset 3, written "B2_"
\* (a build has a mangler of its own, so this is looked at once, where a
\* session starts).
C30_CachedPositions ==
    /\ mangler # NoMangler =>
           /\ mangler.start_offset = 2
           /\ AtLeastStart(mangler.paths, mangler.start_offset)
           /\ ~mangler.underflow
    /\ symbol_mangler # NoMangler =>
           /\ symbol_mangler.start_offset = 2
           /\ AtLeastStart(symbol_mangler.paths, symbol_mangler.start_offset)
           /\ AtLeastStart(symbol_mangler.types, symbol_mangler.start_offset)
           /\ AtLeastStart(symbol_mangler.consts, symbol_mangler.start_offset)
           /\ \A i \in DOMAIN symbol_mangler.backrefs :
                  symbol_mangler.backrefs[i].pos >= symbol_mangler.start_offset
           /\ ~symbol_mangler.underflow
    /\ called.n = 0 =>
           \A b \in C30_MethodBuilders :
               /\ build(b).kind = "Ok"
               /\ IsSubstring(<<"N", "t", "B", "2", "_">>
                                  \o IdentText(b.method_info.val.type_name),
                              build(b).val)

\* A definition path that was cached is printed again, as a backreference
\* to its cached position.
C30_Witness ==
    /\ called.fn = "print_def_path"
    /\ <<called.def_id, called.args>> \in DOMAIN called.before.paths
    /\ symbol_mangler.backrefs # called.before.backrefs
    /\ Len(symbol_mangler.out) > Len(called.before.out)

====
